---- MODULE Spec2Model ----
(***************************************************************************)
(* Model of JsonParserNode (src/nodes/JsonParserNode.py): the path         *)
(* tokenizer and walker of _parse_json_path, _format_output and the        *)
(* caller parse_input (Spec, SpecFair); and of the calls of                *)
(* LoadImageFromUrlNode (SpecLoad), OldPhotoColorizationNode               *)
(* (SpecColorize) and SaveImageUnifiedOutput (SpecSave).  Each             *)
(* specification runs one node and keeps the others idle.                  *)
(*                                                                         *)
(* Strings that the code scans character by character (the path, bracket   *)
(* tokens, dictionary keys, JSON string values) are sequences of           *)
(* one-character strings; strings that are only compared or returned       *)
(* (input_string, default_value, results) are TLA+ strings.                *)
(***************************************************************************)
EXTENDS Integers, Sequences, FiniteSets, TLC

\* Longest path drawn exhaustively from PathAlphabet.
MaxPathLen == 3

----------------------------------------------------------------------------
(* Python string and integer primitives used by the node *)

Whitespace == {" ", "\t", "\n"}
Digits == {"0", "1", "2", "3", "4", "5", "6", "7", "8", "9"}
QuoteChars == {"\"", "'"}

DigitVal(c) ==
  CASE c = "0" -> 0 [] c = "1" -> 1 [] c = "2" -> 2 [] c = "3" -> 3
    [] c = "4" -> 4 [] c = "5" -> 5 [] c = "6" -> 6 [] c = "7" -> 7
    [] c = "8" -> 8 [] c = "9" -> 9

DigitChar(d) ==
  CASE d = 0 -> "0" [] d = 1 -> "1" [] d = 2 -> "2" [] d = 3 -> "3"
    [] d = 4 -> "4" [] d = 5 -> "5" [] d = 6 -> "6" [] d = 7 -> "7"
    [] d = 8 -> "8" [] d = 9 -> "9"

\* "".join(chars): a character sequence as one string.
RECURSIVE Join(_)
Join(s) == IF s = <<>> THEN "" ELSE Head(s) \o Join(Tail(s))

RECURSIVE LStrip(_, _)
LStrip(s, cs) ==
  IF s # <<>> /\ Head(s) \in cs THEN LStrip(Tail(s), cs) ELSE s

RECURSIVE RStrip(_, _)
RStrip(s, cs) ==
  IF s # <<>> /\ s[Len(s)] \in cs
    THEN RStrip(SubSeq(s, 1, Len(s) - 1), cs)
    ELSE s

\* str.strip(cs): removes EVERY leading and trailing character that is in cs.
StripChars(s, cs) == RStrip(LStrip(s, cs), cs)

\* `not path.strip()`
IsBlankByEmptiness(path) == path = <<>>
IsBlank(path) == StripChars(path, Whitespace) = <<>>

\* Digit groups of an int() literal: digits, single underscores between them.
ValidDigits(d) ==
  /\ d # <<>>
  /\ d[1] \in Digits
  /\ d[Len(d)] \in Digits
  /\ \A i \in 1..Len(d) :
        /\ d[i] \in Digits \cup {"_"}
        /\ (d[i] = "_" => d[i + 1] \in Digits)

RECURSIVE DigitsValue(_, _)
DigitsValue(d, acc) ==
  IF d = <<>> THEN acc
  ELSE IF Head(d) = "_" THEN DigitsValue(Tail(d), acc)
  ELSE DigitsValue(Tail(d), acc * 10 + DigitVal(Head(d)))

\* int(s) for a str s: [ok |-> FALSE] stands for ValueError.
PyInt(s) ==
  LET t      == StripChars(s, Whitespace)
      signed == t # <<>> /\ t[1] \in {"+", "-"}
      d      == IF signed THEN Tail(t) ELSE t
  IN  IF ValidDigits(d)
        THEN [ok |-> TRUE,
              n  |-> IF signed /\ t[1] = "-" THEN 0 - DigitsValue(d, 0)
                                            ELSE DigitsValue(d, 0)]
        ELSE [ok |-> FALSE, n |-> 0]

\* str(n) for an int n.
RECURSIVE NatToStr(_)
NatToStr(n) ==
  IF n < 10 THEN DigitChar(n) ELSE NatToStr(n \div 10) \o DigitChar(n % 10)

IntToStr(n) == IF n < 0 THEN "-" \o NatToStr(0 - n) ELSE NatToStr(n)

----------------------------------------------------------------------------
(* JSON values as json.loads builds them, tagged with the Python type name *)

JNull == [t |-> "NoneType"]
JBool(b) == [t |-> "bool", b |-> b]
JInt(n) == [t |-> "int", n |-> n]
JStr(s) == [t |-> "str", s |-> s]
JList(items) == [t |-> "list", items |-> items]
\* entries: sequence of [k |-> key characters, v |-> value], insertion order
JDict(entries) == [t |-> "dict", entries |-> entries]
KV(k, v) == [k |-> k, v |-> v]

TypeName(v) == v.t

(* Accessors as the tokenizer appends them: a Python int or a Python str *)
IntPart(n) == [k |-> "int", n |-> n]
StrPart(s) == [k |-> "str", s |-> s]

\* str(part)
PartLabel(part) == IF part.k = "int" THEN IntToStr(part.n) ELSE Join(part.s)

\* ".".join(traversed_path)
RECURSIVE JoinDot(_)
JoinDot(labels) ==
  IF labels = <<>> THEN ""
  ELSE IF Len(labels) = 1 THEN labels[1]
  ELSE labels[1] \o "." \o JoinDot(Tail(labels))

----------------------------------------------------------------------------
(* json.dumps(data, ensure_ascii=False [, indent=2]) and str(data) *)

\* The characters json.dumps writes for one character of a string
EscapeSeqNone(c) == <<c>>
EscapeSeq(c) ==
  CASE c = "\"" -> <<"\\", "\"">>
    [] c = "\\" -> <<"\\", "\\">>
    [] c = "\n" -> <<"\\", "n">>
    [] c = "\t" -> <<"\\", "t">>
    [] OTHER    -> <<c>>

EscapeChar(c) == Join(EscapeSeq(c))

RECURSIVE EscapeStr(_)
EscapeStr(s) == IF s = <<>> THEN "" ELSE EscapeChar(Head(s)) \o EscapeStr(Tail(s))

QuoteStr(s) == "\"" \o EscapeStr(s) \o "\""

RECURSIVE Spaces(_)
Spaces(n) == IF n <= 0 THEN "" ELSE " " \o Spaces(n - 1)

RECURSIVE EscapeChars(_)
EscapeChars(s) ==
  IF s = <<>> THEN <<>> ELSE EscapeSeq(Head(s)) \o EscapeChars(Tail(s))

QuotedChars(s) == <<"\"">> \o EscapeChars(s) \o <<"\"">>

RECURSIVE NatChars(_)
NatChars(n) ==
  IF n < 10 THEN <<DigitChar(n)>>
  ELSE Append(NatChars(n \div 10), DigitChar(n % 10))

IntChars(n) == IF n < 0 THEN <<"-">> \o NatChars(0 - n) ELSE NatChars(n)

\* Separators of json.dumps when no indent and no separators are given
ItemSeparatorCompact == <<",">>
ItemSeparator == <<",", " ">>
KeySeparator == <<":", " ">>

RECURSIVE DumpsChars(_)
RECURSIVE DumpsItemsChars(_)
RECURSIVE DumpsEntriesChars(_)

\* json.dumps(data, ensure_ascii=False), character by character
DumpsChars(v) ==
  CASE v.t = "NoneType" -> <<"n", "u", "l", "l">>
    [] v.t = "bool"     -> IF v.b THEN <<"t", "r", "u", "e">>
                                  ELSE <<"f", "a", "l", "s", "e">>
    [] v.t = "int"      -> IntChars(v.n)
    [] v.t = "str"      -> QuotedChars(v.s)
    [] v.t = "list"     -> <<"[">> \o DumpsItemsChars(v.items) \o <<"]">>
    [] v.t = "dict"     -> <<"{">> \o DumpsEntriesChars(v.entries) \o <<"}">>

DumpsItemsChars(items) ==
  IF items = <<>> THEN <<>>
  ELSE IF Len(items) = 1 THEN DumpsChars(items[1])
  ELSE DumpsChars(items[1]) \o ItemSeparator \o DumpsItemsChars(Tail(items))

DumpsEntriesChars(entries) ==
  IF entries = <<>> THEN <<>>
  ELSE LET e == QuotedChars(entries[1].k) \o KeySeparator
                  \o DumpsChars(entries[1].v)
       IN  IF Len(entries) = 1 THEN e
           ELSE e \o ItemSeparator \o DumpsEntriesChars(Tail(entries))

Dumps(v) == Join(DumpsChars(v))

RECURSIVE DumpsIndent(_, _)
RECURSIVE DumpsIndentItems(_, _)
RECURSIVE DumpsIndentEntries(_, _)

\* indent=2: one element per line, separators "," and ": ", empty
\* containers stay "[]" and "{}".
DumpsIndent(v, level) ==
  CASE v.t = "list" /\ v.items # <<>> ->
         "[\n" \o DumpsIndentItems(v.items, level + 1)
               \o "\n" \o Spaces(2 * level) \o "]"
    [] v.t = "dict" /\ v.entries # <<>> ->
         "{\n" \o DumpsIndentEntries(v.entries, level + 1)
               \o "\n" \o Spaces(2 * level) \o "}"
    [] OTHER -> Dumps(v)

DumpsIndentItems(items, level) ==
  LET e == Spaces(2 * level) \o DumpsIndent(items[1], level)
  IN  IF Len(items) = 1 THEN e
      ELSE e \o ",\n" \o DumpsIndentItems(Tail(items), level)

DumpsIndentEntries(entries, level) ==
  LET e == Spaces(2 * level) \o QuoteStr(entries[1].k) \o ": "
             \o DumpsIndent(entries[1].v, level)
  IN  IF Len(entries) = 1 THEN e
      ELSE e \o ",\n" \o DumpsIndentEntries(Tail(entries), level)

\* str(data) for a scalar
PyStr(v) ==
  CASE v.t = "NoneType" -> "None"
    [] v.t = "bool"     -> IF v.b THEN "True" ELSE "False"
    [] v.t = "int"      -> IntToStr(v.n)
    [] v.t = "str"      -> Join(v.s)

\* _format_output(data, "json"), character by character (lines 142-146)
CompactJsonChars(data) == IF data = JNull THEN <<>> ELSE DumpsChars(data)

\* _format_output(data, output_format)
FormatOutputNoNullCase(data, output_format) ==
  IF output_format = "json" THEN Dumps(data)
  ELSE IF output_format = "pretty_json" THEN DumpsIndent(data, 0)
  ELSE IF data.t \in {"dict", "list"} THEN Dumps(data)
  ELSE PyStr(data)
FormatOutput(data, output_format) ==
  IF data = JNull THEN ""
  ELSE IF output_format = "json" THEN Dumps(data)
  ELSE IF output_format = "pretty_json" THEN DumpsIndent(data, 0)
  ELSE IF data.t \in {"dict", "list"} THEN Dumps(data)
  ELSE PyStr(data)

----------------------------------------------------------------------------
(* json.loads(text), character by character.  A result is                  *)
(* [ok, value, next]: next is the position after the parsed value.         *)
(* Numbers with a fraction or an exponent are rejected here: the values of *)
(* this model hold integers only.                                          *)

JsonWhitespace == {" ", "\t", "\n", "\r"}
ParseFail == [ok |-> FALSE, value |-> JNull, next |-> 0]
ParseOk(v, next) == [ok |-> TRUE, value |-> v, next |-> next]

RECURSIVE SkipWs(_, _)
SkipWs(c, i) ==
  IF i <= Len(c) /\ c[i] \in JsonWhitespace THEN SkipWs(c, i + 1) ELSE i

HasWord(c, i, word) ==
  /\ i + Len(word) - 1 <= Len(c)
  /\ SubSeq(c, i, i + Len(word) - 1) = word

\* The body of a string literal from position i, up to the closing quote
RECURSIVE ParseString(_, _, _)
ParseString(c, i, acc) ==
  IF i > Len(c) THEN ParseFail
  ELSE IF c[i] = "\"" THEN ParseOk(acc, i + 1)
  ELSE IF c[i] \in {"\n", "\t", "\r"} THEN ParseFail
  ELSE IF c[i] = "\\"
    THEN IF i + 1 > Len(c) THEN ParseFail
         ELSE CASE c[i + 1] = "\"" -> ParseString(c, i + 2, Append(acc, "\""))
                [] c[i + 1] = "\\" -> ParseString(c, i + 2, Append(acc, "\\"))
                [] c[i + 1] = "/"  -> ParseString(c, i + 2, Append(acc, "/"))
                [] c[i + 1] = "n"  -> ParseString(c, i + 2, Append(acc, "\n"))
                [] c[i + 1] = "t"  -> ParseString(c, i + 2, Append(acc, "\t"))
                [] c[i + 1] = "r"  -> ParseString(c, i + 2, Append(acc, "\r"))
                [] OTHER           -> ParseFail
  ELSE ParseString(c, i + 1, Append(acc, c[i]))

RECURSIVE DigitRunEnd(_, _)
DigitRunEnd(c, i) ==
  IF i <= Len(c) /\ c[i] \in Digits THEN DigitRunEnd(c, i + 1) ELSE i

\* -?(0|[1-9][0-9]*)
ParseNumber(c, i) ==
  LET neg   == c[i] = "-"
      first == IF neg THEN i + 1 ELSE i
      stop  == DigitRunEnd(c, first)
      run   == SubSeq(c, first, stop - 1)
  IN  IF \/ run = <<>>
         \/ (Len(run) > 1 /\ run[1] = "0")
         \/ (stop <= Len(c) /\ c[stop] \in {".", "e", "E"})
        THEN ParseFail
        ELSE ParseOk(JInt(IF neg THEN 0 - DigitsValue(run, 0)
                                 ELSE DigitsValue(run, 0)), stop)

\* A later duplicate key replaces the value and keeps the first position
PutEntry(entries, k, v) ==
  IF \E i \in 1..Len(entries) : entries[i].k = k
    THEN [i \in 1..Len(entries) |->
            IF entries[i].k = k THEN KV(k, v) ELSE entries[i]]
    ELSE Append(entries, KV(k, v))

RECURSIVE ParseValue(_, _)
RECURSIVE ParseElems(_, _, _)
RECURSIVE ParseMembers(_, _, _)

ParseValue(c, i) ==
  LET j == SkipWs(c, i)
  IN  IF j > Len(c) THEN ParseFail
      ELSE IF HasWord(c, j, <<"n", "u", "l", "l">>) THEN ParseOk(JNull, j + 4)
      ELSE IF HasWord(c, j, <<"t", "r", "u", "e">>)
        THEN ParseOk(JBool(TRUE), j + 4)
      ELSE IF HasWord(c, j, <<"f", "a", "l", "s", "e">>)
        THEN ParseOk(JBool(FALSE), j + 5)
      ELSE IF c[j] = "\""
        THEN LET r == ParseString(c, j + 1, <<>>)
             IN  IF r.ok THEN ParseOk(JStr(r.value), r.next) ELSE ParseFail
      ELSE IF c[j] = "["
        THEN LET k == SkipWs(c, j + 1)
             IN  IF k <= Len(c) /\ c[k] = "]" THEN ParseOk(JList(<<>>), k + 1)
                 ELSE ParseElems(c, k, <<>>)
      ELSE IF c[j] = "{"
        THEN LET k == SkipWs(c, j + 1)
             IN  IF k <= Len(c) /\ c[k] = "}" THEN ParseOk(JDict(<<>>), k + 1)
                 ELSE ParseMembers(c, k, <<>>)
      ELSE IF c[j] = "-" \/ c[j] \in Digits THEN ParseNumber(c, j)
      ELSE ParseFail

\* Elements of an array from position i: value, then ',' or ']'
ParseElems(c, i, acc) ==
  LET r == ParseValue(c, i)
  IN  IF ~r.ok THEN ParseFail
      ELSE LET j == SkipWs(c, r.next)
           IN  IF j > Len(c) THEN ParseFail
               ELSE IF c[j] = ","
                 THEN ParseElems(c, j + 1, Append(acc, r.value))
               ELSE IF c[j] = "]"
                 THEN ParseOk(JList(Append(acc, r.value)), j + 1)
               ELSE ParseFail

\* Members of an object from position i: "key" : value, then ',' or '}'
ParseMembers(c, i, acc) ==
  LET j == SkipWs(c, i)
  IN  IF j > Len(c) \/ c[j] # "\"" THEN ParseFail
      ELSE LET key == ParseString(c, j + 1, <<>>)
           IN  IF ~key.ok THEN ParseFail
               ELSE LET k == SkipWs(c, key.next)
                    IN  IF k > Len(c) \/ c[k] # ":" THEN ParseFail
                        ELSE LET r == ParseValue(c, k + 1)
                             IN  IF ~r.ok THEN ParseFail
                                 ELSE LET m == SkipWs(c, r.next)
                                          e == PutEntry(acc, key.value, r.value)
                                      IN  IF m > Len(c) THEN ParseFail
                                          ELSE IF c[m] = ","
                                            THEN ParseMembers(c, m + 1, e)
                                          ELSE IF c[m] = "}"
                                            THEN ParseOk(JDict(e), m + 1)
                                          ELSE ParseFail

\* json.loads(text): one value and nothing but whitespace after it
JsonParse(c) ==
  LET r == ParseValue(c, 1)
  IN  IF r.ok /\ SkipWs(c, r.next) > Len(c)
        THEN [ok |-> TRUE, value |-> r.value]
        ELSE [ok |-> FALSE, value |-> JNull]

----------------------------------------------------------------------------
(* Bounded inputs *)

DocNested ==
  JDict(<< KV(<<"a">>, JDict(<< KV(<<"b">>, JInt(1)), KV(<<"0">>, JNull) >>)),
           KV(<<"0">>, JStr(<<>>)),
           KV(<<"b">>, JBool(FALSE)) >>)

DocArray ==
  JDict(<< KV(<<"a">>, JList(<< JInt(10), JInt(20) >>)),
           KV(<<"0">>, JInt(0)),
           KV(<<"b", ".", "c">>, JStr(<<"x">>)) >>)

DocList ==
  JList(<< JDict(<< KV(<<"a">>, JNull), KV(<<"0">>, JList(<< JInt(5) >>)) >>),
           JList(<< JBool(FALSE), JStr(<<>>) >>),
           JStr(<<"s", ",", " ", "\"", ":", " ">>),
           JInt(0) >>)

TextNested == "{\"a\": {\"b\": 1, \"0\": null}, \"0\": \"\", \"b\": false}"
TextArray == "{\"a\": [10, 20], \"0\": 0, \"b.c\": \"x\"}"
TextList ==
  "[{\"a\": null, \"0\": [5]}, [false, \"\"], \"s, \\\": \", 0]"
TextTruncated == "{\"a\": "

ValidTexts ==
  {TextNested, TextArray, TextList, "null", "0", "\"s\"", "[]", "{}"}
InvalidTexts == {TextTruncated, ""}
InputStrings == ValidTexts \cup InvalidTexts

\* json.loads(input_string.strip()) on the bounded inputs;
\* [ok |-> FALSE] stands for json.JSONDecodeError with message msg.
JsonLoads(text) ==
  CASE text = TextNested -> [ok |-> TRUE, value |-> DocNested]
    [] text = TextArray  -> [ok |-> TRUE, value |-> DocArray]
    [] text = TextList   -> [ok |-> TRUE, value |-> DocList]
    [] text = "null"     -> [ok |-> TRUE, value |-> JNull]
    [] text = "0"        -> [ok |-> TRUE, value |-> JInt(0)]
    [] text = "\"s\""    -> [ok |-> TRUE, value |-> JStr(<<"s">>)]
    [] text = "[]"       -> [ok |-> TRUE, value |-> JList(<<>>)]
    [] text = "{}"       -> [ok |-> TRUE, value |-> JDict(<<>>)]
    [] text = TextTruncated ->
         [ok |-> FALSE, msg |-> "Expecting value: line 1 column 6 (char 5)"]
    [] OTHER ->
         [ok |-> FALSE, msg |-> "Expecting value: line 1 column 1 (char 0)"]

JsonValues == {JsonLoads(t).value : t \in ValidTexts}

PathAlphabet == {"a", "x", "0", "-", ".", "[", "]", " "}

RECURSIVE SeqsUpTo(_, _)
SeqsUpTo(S, n) ==
  IF n = 0 THEN {<<>>}
  ELSE LET shorter == SeqsUpTo(S, n - 1)
       IN  shorter \cup {Append(s, c) : s \in shorter, c \in S}

ShortPaths == SeqsUpTo(PathAlphabet, MaxPathLen)

ExamplePaths ==
  { <<"a", ".", "b">>, <<"a", ".", "c">>, <<"a", "[", "0", "]">>,
    <<"a", "[", "5", "]">>, <<"a", "[", "x", "]">>,
    <<"a", "[", "-", "1", "]">>, <<"a", "[", " ", "1", " ", "]">>,
    <<"a", ".", "1">>, <<"a", ".", "+", "1">>,
    <<"[", "0", "]", ".", "a">>, <<"[", "0", "]", "[", "0", "]", "[", "0", "]">>,
    <<"[", "1", "]", "[", "1", "]">>, <<"0", ".", "0", ".", "0">>,
    <<"[", "1", "]", "[", "0", "]", "[", "0", "]">>, <<"b">>,
    <<"a", ".", "0", ".", "x", ".", "a">>, <<"[", "1", "]", "[", "0", "]">>,
    <<"a", ".", "c", ".", "x", ".", "a">>, <<"a", ".", "x", "[", "0", "]">>,
    <<"a", "[", "b", ".", "c", "]">>, <<"[", "b", ".", "c", "]">>,
    <<"[", "\"", "0", "\"", "]">>, <<"[", "'", "a", "'", "]", ".", "b">>,
    <<"[", "\"", "\"", "a", "'", "]">>,
    <<"a", ".", ".", "b">>, <<".", "a", ".", "b", ".">>,
    <<"a", "[", "]", "b">>, <<"[", "2", "]", ".", "a">>,
    <<"[", "3", "]", "[", "0", "]">>, <<"[", "1", "_", "0", "]">>,
    <<"[", "\"", "a", "\"", "]">>, <<"[", "'", "a", "'", "]">>,
    <<"[", "\"", "x", "\"", "]">>, <<"[", "'", "x", "'", "]">>,
    <<"[", "\"", "\"", "a", "\"", "\"", "]">>,
    <<"a", "[", "'", "b", "'", "]">>, <<"a", "[", "b">>,
    <<"a">>, <<"0">>, <<"[", "2", "]">>, <<"[", "0", "]">>,
    <<" ", " ", " ", " ">>, <<"\t", " ", "\n", " ">> }

Paths == ShortPaths \cup ExamplePaths

OutputFormats == {"string", "json", "pretty_json"}
DefaultValues == {"", "DEFAULT"}

\* The calls explored: every short path on the three documents in Raw mode,
\* the example paths on every input in every output mode, the opaque-text mode, and _parse_json_path entered
\* directly (the only way its root-path branch at line 70 is reached).
JsonCalls ==
  [entry : {"parse_input"}, input_type : {"json"},
   input_string : {TextNested, TextArray, TextList}, json_path : ShortPaths,
   output_format : {"string"}, default_value : DefaultValues]
  \cup
  [entry : {"parse_input"}, input_type : {"json"},
   input_string : InputStrings, json_path : ExamplePaths \cup {<<>>},
   output_format : OutputFormats, default_value : DefaultValues]

StringCalls ==
  [entry : {"parse_input"}, input_type : {"string"},
   input_string : InputStrings, json_path : {<<>>, <<"a">>},
   output_format : OutputFormats, default_value : DefaultValues]

DirectCalls ==
  [entry : {"_parse_json_path"}, data : {DocNested, DocArray, DocList},
   path : ShortPaths]
  \cup
  [entry : {"_parse_json_path"}, data : JsonValues,
   path : ExamplePaths \cup {<<>>}]

----------------------------------------------------------------------------
(* State *)

VARIABLES
  entry,           \* which method the host called
  input_type, input_string, json_path, output_format, default_value,
  pc,              \* "call", "pjp", "tok", "walk", "ret", "done", "raised"
  data,            \* _parse_json_path: argument data
  pos,             \* tokenizer: 1-based position of `char` in path
  current_part, in_brackets, path_parts,
  current_data, traversed_path,
  visited,         \* walker: iterations of `for part in path_parts` begun
  ret,             \* what _parse_json_path returned: [value, info]
  out              \* what parse_input returned: [result, path_info]

inputs == <<entry, input_type, input_string, json_path, output_format,
            default_value>>
tokenizer == <<pos, current_part, in_brackets, path_parts>>
walker == <<current_data, traversed_path, visited>>
jsonParser == <<inputs, pc, data, tokenizer, walker, ret, out>>

\* LoadImageFromUrlNode.load_images (src/nodes/LoadImageFromUrlNode.py)
VARIABLES
  urls,            \* the lines of the `urls` text
  upload,          \* the optional uploaded file
  keep_alpha_channel, output_mode,
  load_pc,         \* "idle", "call", "load", "convert", "emit", "returned", "raised"
  url_list,
  url_idx,         \* 1-based position of the loops over url_list / pil_images
  pil_images, pil_masks,
  image_tensors, mask_tensors,
  load_out         \* what load_images returned, or the exception it raised

loadInputs == <<urls, upload, keep_alpha_channel, output_mode>>
loader == <<loadInputs, load_pc, url_list, url_idx, pil_images, pil_masks,
            image_tensors, mask_tensors, load_out>>

\* OldPhotoColorizationNode (src/nodes/OldPhotoColorizationNode.py)
VARIABLES
  colorizer,       \* self.colorizer
  pipeline_calls,  \* how often pipeline(...) has been called
  temp_files,      \* the temporary files that exist
  temp_made,       \* how many temporary files have been created
  col_calls,       \* number of the colorize_images call on this node
  batch_image,     \* colorize_images: argument image
  col_pc,          \* "idle", "call", "loop", "save", "run", "finally",
                   \* "single_returned", "single_raised", "returned"
  col_i,           \* 1-based `i` of `for i in range(image.shape[0])`
  input_path, pil_image,
  single_out,      \* what _colorize_single_image returned
  output_images, process_infos,
  col_out          \* what colorize_images returned

colorNode == <<colorizer, pipeline_calls, temp_files, temp_made>>
colorCall == <<col_calls, batch_image, col_pc, col_i, input_path, pil_image,
               single_out, output_images, process_infos, col_out>>
colorization == <<colorNode, colorCall>>

\* SaveImageUnifiedOutput (src/nodes/SaveImageUnifiedOutput.py)
VARIABLES
  files,           \* the files under self.output_dir: [folder, name]
  clock,           \* datetime.now(), in seconds
  save_calls,      \* number of the save_images call on this node
  images,          \* save_images: the batch, as its length
  filename_prefix, image_format, include_timestamp, custom_subfolder,
  save_pc,         \* "idle", "call", "loop", "returned"
  full_output_folder, filename, counter,
  batch_number,    \* 0-based index of `for batch_number, image in ...`
  file_paths, saved_count,
  save_out         \* what save_images returned

saveDisk == <<files, clock>>
saveInputs == <<save_calls, images, filename_prefix, image_format,
                include_timestamp, custom_subfolder>>
saveLocals == <<full_output_folder, filename, counter, batch_number,
                file_paths, saved_count>>
saver == <<saveDisk, saveInputs, save_pc, saveLocals, save_out>>

\* The nodes are separate objects: a call on one leaves the others alone.
otherNodes == <<loader, colorization, saver>>
notLoader == <<jsonParser, colorization, saver>>
notColorization == <<jsonParser, loader, saver>>
notSaver == <<jsonParser, loader, colorization>>
vars == <<jsonParser, otherNodes>>

NotCalled == [returned |-> FALSE, raised |-> "none"]

NoBatch == [n |-> 0, channels |-> 3]
NoSingle == [t |-> "none"]

\* A fresh colorization node (lines 24-31) with no call in progress.
ColorizationIdle ==
  /\ colorizer = [t |-> "NoneType"] /\ pipeline_calls = 0
  /\ temp_files = {} /\ temp_made = 0
  /\ col_calls = 0 /\ batch_image = NoBatch
  /\ col_pc = "idle" /\ col_i = 1
  /\ input_path = 0 /\ pil_image = "none"
  /\ single_out = NoSingle
  /\ output_images = <<>> /\ process_infos = <<>>
  /\ col_out = NotCalled

\* A fresh save node (lines 25-31) with an empty output directory and no
\* call in progress.
SaverIdle ==
  /\ files = {} /\ clock = 0
  /\ save_calls = 0 /\ images = [t |-> "Tensor", n |-> 0]
  /\ filename_prefix = <<>> /\ image_format = "PNG"
  /\ include_timestamp = FALSE /\ custom_subfolder = <<>>
  /\ save_pc = "idle"
  /\ full_output_folder = <<>> /\ filename = <<>> /\ counter = 0
  /\ batch_number = 0 /\ file_paths = <<>> /\ saved_count = 0
  /\ save_out = NotCalled

\* No call of load_images is in progress.
LoaderIdle ==
  /\ urls = <<>> /\ upload = "none"
  /\ keep_alpha_channel = FALSE /\ output_mode = FALSE
  /\ load_pc = "idle" /\ url_list = <<>> /\ url_idx = 1
  /\ pil_images = <<>> /\ pil_masks = <<>>
  /\ image_tensors = <<>> /\ mask_tensors = <<>>
  /\ load_out = NotCalled

Unset == [t |-> "unset"]
NoInfo == [kind |-> "none"]

(* Diagnostics.  The node formats them as Chinese text; the model keeps the *)
(* message kind and the values interpolated into it.                       *)

\* "根路径"
RootInfo == [kind |-> "Root"]
\* f"成功提取路径: {path}"
ExtractedInfo(path) == [kind |-> "Success", path |-> Join(path)]
\* f"键 '{part}' 在路径 '{'.'.join(traversed_path)}' 中不存在"
KeyNotFoundBeforeStep(part, trace) ==
  [kind |-> "KeyNotFound", key |-> PartLabel(part),
   path |-> JoinDot(SubSeq(trace, 1, Len(trace) - 1))]
KeyNotFoundInfo(part, trace) ==
  [kind |-> "KeyNotFound", key |-> PartLabel(part), path |-> JoinDot(trace)]
\* f"索引 {index} 超出数组范围 (长度: {len(current_data)})"
IndexOutOfRangeInfo(index, length) ==
  [kind |-> "IndexOutOfRange", index |-> index, length |-> length]
\* f"无效的数组索引: {part}"
InvalidIndexInfo(part) == [kind |-> "InvalidIndex", part |-> PartLabel(part)]
\* f"无法在类型 {type(current_data).__name__} 上使用路径 '{part}'"
TypeMismatchOfPart(cur, part) ==
  [kind |-> "TypeMismatch", type |-> part.k, part |-> PartLabel(part)]
TypeMismatchInfo(cur, part) ==
  [kind |-> "TypeMismatch", type |-> TypeName(cur), part |-> PartLabel(part)]

FailureKinds == {"KeyNotFound", "IndexOutOfRange", "InvalidIndex", "TypeMismatch"}

Init ==
  /\ LoaderIdle /\ ColorizationIdle /\ SaverIdle
  /\ pos = 1 /\ current_part = <<>> /\ in_brackets = FALSE
  /\ path_parts = <<>>
  /\ current_data = Unset /\ traversed_path = <<>> /\ visited = 0
  /\ ret = [value |-> Unset, info |-> NoInfo]
  /\ out = [result |-> "", path_info |-> NoInfo]
  /\ \/ \E c \in JsonCalls \cup StringCalls :
          /\ entry = c.entry /\ input_type = c.input_type
          /\ input_string = c.input_string /\ json_path = c.json_path
          /\ output_format = c.output_format
          /\ default_value = c.default_value
          /\ data = Unset /\ pc = "call"
     \/ \E c \in DirectCalls :
          /\ entry = c.entry /\ input_type = "json" /\ input_string = ""
          /\ json_path = c.path /\ output_format = "string"
          /\ default_value = ""
          /\ data = c.data /\ pc = "pjp"

----------------------------------------------------------------------------
(* _parse_json_path: tokenizer (lines 74-103) *)

\* Lines 80-82, 96-98, 102-103: `if current_part: path_parts.append(...)`
FlushAlways(parts, current) == Append(parts, StrPart(current))
Flush(parts, current) ==
  IF current # <<>> THEN Append(parts, StrPart(current)) ELSE parts

\* Line 95: `char == '.' and not in_brackets`
IsSeparatorAnywhere(char, inside) == char = "."
IsSeparator(char, inside) == char = "." /\ ~inside

\* One matching pair of surrounding quotes removed, if there is one.
StripOneLayer(token) ==
  IF Len(token) >= 2 /\ token[1] \in QuoteChars /\ token[Len(token)] = token[1]
    THEN SubSeq(token, 2, Len(token) - 1)
    ELSE token

BracketPartOneLayer(token) ==
  LET r == PyInt(token)
  IN  IF r.ok THEN IntPart(r.n) ELSE StrPart(StripOneLayer(token))

\* Lines 85-93: a closed, non-empty bracket token becomes an int if int()
\* accepts it, else a str with its surrounding quote characters stripped.
BracketPart(token) ==
  LET r == PyInt(token)
  IN  IF r.ok THEN IntPart(r.n) ELSE StrPart(StripChars(token, QuoteChars))

\* Lines 78-100: one iteration of `for char in path` on the tokenizer state
TokStep(st, char) ==
  IF char = "["
    THEN [current_part |-> <<>>, in_brackets |-> TRUE,
          path_parts |-> Flush(st.path_parts, st.current_part)]
  ELSE IF char = "]"
    THEN IF st.in_brackets /\ st.current_part # <<>>
           THEN [current_part |-> <<>>, in_brackets |-> FALSE,
                 path_parts |-> Append(st.path_parts,
                                       BracketPart(st.current_part))]
           ELSE [st EXCEPT !.in_brackets = FALSE]
  ELSE IF IsSeparator(char, st.in_brackets)
    THEN [st EXCEPT !.current_part = <<>>,
                    !.path_parts = Flush(st.path_parts, st.current_part)]
  ELSE [st EXCEPT !.current_part = Append(st.current_part, char)]

\* Lines 74-100: the whole scan, from the state of lines 74-76
RECURSIVE TokScan(_, _)
TokScan(st, path) ==
  IF path = <<>> THEN st ELSE TokScan(TokStep(st, Head(path)), Tail(path))

TokStart == [current_part |-> <<>>, in_brackets |-> FALSE, path_parts |-> <<>>]

\* Lines 74-103: path_parts as the walk receives it
Tokens(path) ==
  LET st == TokScan(TokStart, path)
  IN  Flush(st.path_parts, st.current_part)

\* Lines 70-103: the accessors a path yields (none for a blank path)
Accessors(path) == IF IsBlank(path) THEN <<>> ELSE Tokens(path)

\* Lines 70-71
RootPath ==
  /\ pc = "pjp"
  /\ IsBlank(json_path)
  /\ ret' = [value |-> data, info |-> RootInfo]
  /\ pc' = "ret"
  /\ UNCHANGED <<otherNodes, inputs, data, tokenizer, walker, out>>

\* Lines 74-76
BeginTokenize ==
  /\ pc = "pjp"
  /\ ~IsBlank(json_path)
  /\ pos' = 1 /\ current_part' = <<>> /\ in_brackets' = FALSE
  /\ path_parts' = <<>>
  /\ pc' = "tok"
  /\ UNCHANGED <<otherNodes, inputs, data, walker, ret, out>>

\* Lines 79-83
TokOpenBracket ==
  /\ pc = "tok" /\ pos <= Len(json_path)
  /\ json_path[pos] = "["
  /\ path_parts' = Flush(path_parts, current_part)
  /\ current_part' = <<>>
  /\ in_brackets' = TRUE
  /\ pos' = pos + 1
  /\ UNCHANGED <<otherNodes, inputs, pc, data, walker, ret, out>>

\* Lines 84-94
TokCloseBracket ==
  /\ pc = "tok" /\ pos <= Len(json_path)
  /\ json_path[pos] = "]"
  /\ IF in_brackets /\ current_part # <<>>
       THEN /\ path_parts' = Append(path_parts, BracketPart(current_part))
            /\ current_part' = <<>>
       ELSE UNCHANGED <<path_parts, current_part>>
  /\ in_brackets' = FALSE
  /\ pos' = pos + 1
  /\ UNCHANGED <<otherNodes, inputs, pc, data, walker, ret, out>>

\* Lines 95-98
TokDot ==
  /\ pc = "tok" /\ pos <= Len(json_path)
  /\ IsSeparator(json_path[pos], in_brackets)
  /\ path_parts' = Flush(path_parts, current_part)
  /\ current_part' = <<>>
  /\ pos' = pos + 1
  /\ UNCHANGED <<otherNodes, inputs, pc, data, in_brackets, walker, ret, out>>

\* Lines 99-100
TokChar ==
  /\ pc = "tok" /\ pos <= Len(json_path)
  /\ json_path[pos] \notin {"[", "]"}
  /\ ~IsSeparator(json_path[pos], in_brackets)
  /\ current_part' = Append(current_part, json_path[pos])
  /\ pos' = pos + 1
  /\ UNCHANGED <<otherNodes, inputs, pc, data, in_brackets, path_parts, walker, ret, out>>

\* Lines 102-107: flush the last segment, start the walk
TokEnd ==
  /\ pc = "tok" /\ pos > Len(json_path)
  /\ path_parts' = Flush(path_parts, current_part)
  /\ current_data' = data
  /\ traversed_path' = <<>>
  /\ visited' = 0
  /\ pc' = "walk"
  /\ UNCHANGED <<otherNodes, inputs, data, pos, current_part, in_brackets, ret, out>>

----------------------------------------------------------------------------
(* _parse_json_path: walker (lines 109-129) *)

IsDict(v) == v.t = "dict"
IsList(v) == v.t = "list"

\* Line 110: traversed_path.append(str(part)), before the step is tried
TraceNotRecorded(trace, part) == trace
TraceEntering(trace, part) == Append(trace, PartLabel(part))

\* Line 113: `part in current_data`.  The keys of a dict built by json.loads
\* are all str, and a Python int is never equal to a str, so an int part is
\* in no such dict.
DictHasAlways(cur, part) == TRUE
DictHas(cur, part) ==
  /\ part.k = "str"
  /\ \E i \in 1..Len(cur.entries) : cur.entries[i].k = part.s

\* Line 114: current_data[part]
DictGet(cur, part) ==
  IF part.k = "str" /\ \E i \in 1..Len(cur.entries) : cur.entries[i].k = part.s
    THEN cur.entries[CHOOSE i \in 1..Len(cur.entries) :
                       cur.entries[i].k = part.s].v
    ELSE Unset

\* Line 119: int(part) if isinstance(part, str) else part
ListIndexNoConversion(part) ==
  IF part.k = "str" THEN [ok |-> FALSE, n |-> 0] ELSE [ok |-> TRUE, n |-> part.n]
ListIndexLenient(part) ==
  IF part.k = "str"
    THEN [ok |-> TRUE, n |-> PyInt(part.s).n]
    ELSE [ok |-> TRUE, n |-> part.n]
ListIndex(part) ==
  IF part.k = "str" THEN PyInt(part.s) ELSE [ok |-> TRUE, n |-> part.n]

\* Line 120: 0 <= index < len(current_data)
InRangeFromEnd(index, length) == 0 - length <= index /\ index < length
InRange(index, length) == 0 <= index /\ index < length

\* Line 121: current_data[index], Python indexing (negative: from the end)
ListGet(items, index) ==
  IF index >= 0 THEN items[index + 1] ELSE items[Len(items) + index + 1]

Failure(info) == [value |-> JNull, info |-> info]

\* Lines 112-116
WalkDict ==
  /\ pc = "walk" /\ visited < Len(path_parts)
  /\ IsDict(current_data)
  /\ LET part  == path_parts[visited + 1]
         trace == TraceEntering(traversed_path, part)
     IN  /\ traversed_path' = trace
         /\ visited' = visited + 1
         /\ IF DictHas(current_data, part)
              THEN /\ current_data' = DictGet(current_data, part)
                   /\ UNCHANGED <<pc, ret>>
              ELSE /\ ret' = Failure(KeyNotFoundInfo(part, trace))
                   /\ pc' = "ret"
                   /\ UNCHANGED current_data
  /\ UNCHANGED <<otherNodes, inputs, data, tokenizer, out>>

\* Line 124: `except (ValueError, TypeError)` around int(part); an exception
\* it does not name leaves _parse_json_path and parse_input (pc = "raised").
WalkCatchesTypeErrorOnly(exc) == exc = "TypeError"
WalkCatches(exc) == exc \in {"ValueError", "TypeError"}

\* Lines 117-125
WalkList ==
  /\ pc = "walk" /\ visited < Len(path_parts)
  /\ ~IsDict(current_data) /\ IsList(current_data)
  /\ LET part  == path_parts[visited + 1]
         index == ListIndex(part)
         n     == Len(current_data.items)
     IN  /\ traversed_path' = TraceEntering(traversed_path, part)
         /\ visited' = visited + 1
         /\ IF ~index.ok
              THEN IF WalkCatches("ValueError")
                     THEN /\ ret' = Failure(InvalidIndexInfo(part))
                          /\ pc' = "ret"
                          /\ UNCHANGED current_data
                     ELSE /\ pc' = "raised"
                          /\ UNCHANGED <<ret, current_data>>
              ELSE IF InRange(index.n, n)
              THEN /\ current_data' = ListGet(current_data.items, index.n)
                   /\ UNCHANGED <<pc, ret>>
              ELSE /\ ret' = Failure(IndexOutOfRangeInfo(index.n, n))
                   /\ pc' = "ret"
                   /\ UNCHANGED current_data
  /\ UNCHANGED <<otherNodes, inputs, data, tokenizer, out>>

\* Lines 126-127
WalkOther ==
  /\ pc = "walk" /\ visited < Len(path_parts)
  /\ ~IsDict(current_data) /\ ~IsList(current_data)
  /\ LET part == path_parts[visited + 1]
     IN  /\ traversed_path' = TraceEntering(traversed_path, part)
         /\ visited' = visited + 1
         /\ ret' = Failure(TypeMismatchInfo(current_data, part))
         /\ pc' = "ret"
  /\ UNCHANGED <<otherNodes, inputs, data, tokenizer, current_data, out>>

\* Line 129
WalkDone ==
  /\ pc = "walk" /\ visited = Len(path_parts)
  /\ ret' = [value |-> current_data, info |-> ExtractedInfo(json_path)]
  /\ pc' = "ret"
  /\ UNCHANGED <<otherNodes, inputs, data, tokenizer, walker, out>>

----------------------------------------------------------------------------
(* parse_input (lines 169-197) *)

\* Line 169: `input_type == "string"`
IsStringModeNever(type) == FALSE
IsStringMode(type) == type = "string"

\* Lines 169-170
ReturnString ==
  /\ pc = "call" /\ IsStringMode(input_type)
  /\ out' = [result |-> input_string, path_info |-> [kind |-> "PlainString"]]
  /\ pc' = "done"
  /\ UNCHANGED <<otherNodes, inputs, data, tokenizer, walker, ret>>

\* Lines 173-176: ("JSON解析错误: " + str(e), "JSON格式无效").  The handler
\* at 177-178 needs an exception other than JSONDecodeError, which
\* json.loads raises on none of the bounded inputs.
ParseErrorOutNoMessage(msg) ==
  [result |-> "JSON parse error: ", path_info |-> [kind |-> "InvalidJson"]]
ParseErrorOut(msg) ==
  [result |-> "JSON parse error: " \o msg,
   path_info |-> [kind |-> "InvalidJson"]]

ReturnJsonError ==
  /\ pc = "call" /\ ~IsStringMode(input_type)
  /\ ~JsonLoads(input_string).ok
  /\ out' = ParseErrorOut(JsonLoads(input_string).msg)
  /\ pc' = "done"
  /\ UNCHANGED <<otherNodes, inputs, data, tokenizer, walker, ret>>

\* Lines 181-183
ReturnWhole ==
  /\ pc = "call" /\ ~IsStringMode(input_type)
  /\ JsonLoads(input_string).ok
  /\ IsBlank(json_path)
  /\ out' = [result |-> FormatOutput(JsonLoads(input_string).value,
                                     output_format),
             path_info |-> [kind |-> "WholeJson"]]
  /\ pc' = "done"
  /\ UNCHANGED <<otherNodes, inputs, data, tokenizer, walker, ret>>

\* Line 186: call _parse_json_path(parsed_data, json_path)
CallExtract ==
  /\ pc = "call" /\ ~IsStringMode(input_type)
  /\ JsonLoads(input_string).ok
  /\ ~IsBlank(json_path)
  /\ data' = JsonLoads(input_string).value
  /\ pc' = "pjp"
  /\ UNCHANGED <<otherNodes, inputs, tokenizer, walker, ret, out>>

\* Line 188: `result is None`
IsFalsy(v) ==
  \/ v = JNull
  \/ v.t = "bool" /\ ~v.b
  \/ v.t = "int" /\ v.n = 0
  \/ v.t = "str" /\ v.s = <<>>
  \/ v.t = "list" /\ v.items = <<>>
  \/ v.t = "dict" /\ v.entries = <<>>
IsNone(v) == v = JNull

\* Lines 188-197
ReturnExtracted ==
  /\ pc = "ret" /\ entry = "parse_input"
  /\ IF IsNone(ret.value)
       THEN IF default_value # ""
              THEN out' = [result |-> default_value,
                           path_info |-> [kind |-> "UsedDefault",
                                          inner |-> ret.info]]
              ELSE out' = [result |-> "", path_info |-> ret.info]
       ELSE out' = [result |-> FormatOutput(ret.value, output_format),
                    path_info |-> ret.info]
  /\ pc' = "done"
  /\ UNCHANGED <<otherNodes, inputs, data, tokenizer, walker, ret>>

\* No call of the JSON parser node is in progress.
JsonParserIdle ==
  /\ entry = "none" /\ input_type = "json" /\ input_string = ""
  /\ json_path = <<>> /\ output_format = "string" /\ default_value = ""
  /\ pc = "idle" /\ data = Unset
  /\ pos = 1 /\ current_part = <<>> /\ in_brackets = FALSE
  /\ path_parts = <<>>
  /\ current_data = Unset /\ traversed_path = <<>> /\ visited = 0
  /\ ret = [value |-> Unset, info |-> NoInfo]
  /\ out = [result |-> "", path_info |-> NoInfo]

Next ==
  \/ ReturnString \/ ReturnJsonError \/ ReturnWhole \/ CallExtract
  \/ RootPath \/ BeginTokenize
  \/ TokOpenBracket \/ TokCloseBracket \/ TokDot \/ TokChar \/ TokEnd
  \/ WalkDict \/ WalkList \/ WalkOther \/ WalkDone
  \/ ReturnExtracted

Spec == Init /\ [][Next]_vars

\* The call runs to completion: no step of it waits on anything.
SpecFair == Spec /\ WF_vars(Next)

----------------------------------------------------------------------------
(* LoadImageFromUrlNode: load_images and _load_images_from_urls.           *)
(* A PIL image is its mode and size, a tensor is its shape; pixel values   *)
(* play no part in the control flow.  The images carry no EXIF orientation *)
(* tag, so ImageOps.exif_transpose leaves mode and size as they are.       *)

\* Most lines of the `urls` text.
MaxUrls == 2

None == [t |-> "NoneType"]
PilImage(mode, width, height) ==
  [t |-> "Image", mode |-> mode, width |-> width, height |-> height]

ExampleImages ==
  { PilImage("RGB", 1, 1), PilImage("RGB", 2, 1), PilImage("RGB", 1, 2),
    PilImage("RGBA", 1, 1), PilImage("RGBA", 2, 1),
    PilImage("L", 1, 1), PilImage("LA", 1, 1) }

\* What a non-blank line of `urls` leads to: no image (missing file, HTTP
\* error, bad data URI: _load_single_image_from_url returns None), a file
\* that opens but fails while its pixels are decoded, or an image.
NoImage == [t |-> "NoImage"]
Truncated == [t |-> "Truncated"]
UrlSources == {NoImage, Truncated} \cup ExampleImages
\* An empty or all-whitespace line
BlankLine == [t |-> "Blank"]
UrlLines == UrlSources \cup {BlankLine}
UploadedImage == PilImage("RGB", 1, 1)

\* [url.strip() for url in urls.strip().split("\n") if url.strip()]
UrlList(lines) == SelectSeq(lines, LAMBDA l : l # BlankLine)
\* upload.get('image') whose annotated path exists is appended as file://
WithUpload(list, up) ==
  IF up = "present" THEN Append(list, UploadedImage) ELSE list

\* "A" in image.getbands()
HasAlpha(image) == image.mode \in {"RGBA", "LA"}
\* "RGB" in image.mode
ModeHasRGB(image) == image.mode \in {"RGB", "RGBA"}
Convert(image, mode) == [image EXCEPT !.mode = mode]
GetChannelA(image) == PilImage("L", image.width, image.height)

\* _load_images_from_urls, the body of the try for an image that opened
LoadedImage(image, keep) ==
  LET rgb == IF ModeHasRGB(image) THEN image
             ELSE IF HasAlpha(image) THEN Convert(image, "RGBA")
             ELSE Convert(image, "RGB")
  IN  IF ~keep /\ HasAlpha(image) THEN Convert(rgb, "RGB") ELSE rgb
LoadedMask(image) == IF HasAlpha(image) THEN GetChannelA(image) ELSE None

Channels(mode) == IF mode = "RGBA" THEN 4 ELSE 3
\* _pil_to_tensor: shape [1, H, W, C]
PilToTensor(image, keep) ==
  LET target == IF keep /\ HasAlpha(image) THEN "RGBA" ELSE "RGB"
  IN  <<1, image.height, image.width, Channels(target)>>
\* the mask tensor of one image: shape [H, W]
MaskTensor(image, mask) ==
  IF mask # None THEN <<mask.height, mask.width>>
  ELSE <<image.height, image.width>>

Tail3(shape) == SubSeq(shape, 2, Len(shape))
\* any(tensor.shape[1:3] != first_shape[1:3] for tensor in image_tensors[1:])
HasSizeMismatch(tensors) ==
  \E i \in 2..Len(tensors) :
    SubSeq(tensors[i], 2, 3) # SubSeq(tensors[1], 2, 3)
\* torch.cat(tensors, dim=0) needs equal sizes in every other dimension.
CanCat(tensors) ==
  \A i \in 2..Len(tensors) : Tail3(tensors[i]) = Tail3(tensors[1])
RECURSIVE SumDim0(_)
SumDim0(tensors) ==
  IF tensors = <<>> THEN 0 ELSE Head(tensors)[1] + SumDim0(Tail(tensors))
Cat(tensors) == <<SumDim0(tensors)>> \o Tail3(tensors[1])
\* torch.stack(tensors, dim=0) needs equal shapes.
CanStack(tensors) == \A i \in 2..Len(tensors) : tensors[i] = tensors[1]
Stack(tensors) == <<Len(tensors)>> \o tensors[1]

LoadReturn(tensors, masks, has) ==
  [returned |-> TRUE, raised |-> "none",
   images |-> tensors, masks |-> masks, has_images |-> has]
LoadRaise(exception) == [returned |-> FALSE, raised |-> exception]

\* lines 301-315: nothing to load
LoadEmpty ==
  /\ load_pc = "call"
  /\ WithUpload(UrlList(urls), upload) = <<>>
  /\ load_out' = LoadReturn(<<>>, <<>>, FALSE)
  /\ load_pc' = "returned"
  /\ UNCHANGED <<notLoader, loadInputs, url_list, url_idx, pil_images,
                 pil_masks, image_tensors, mask_tensors>>

\* lines 301-318 and 124-125
LoadBegin ==
  /\ load_pc = "call"
  /\ WithUpload(UrlList(urls), upload) # <<>>
  /\ url_list' = WithUpload(UrlList(urls), upload)
  /\ url_idx' = 1 /\ pil_images' = <<>> /\ pil_masks' = <<>>
  /\ load_pc' = "load"
  /\ UNCHANGED <<notLoader, loadInputs, image_tensors, mask_tensors,
                 load_out>>

\* one iteration of `for url in urls` (lines 127-161)
LoadUrl ==
  /\ load_pc = "load" /\ url_idx <= Len(url_list)
  /\ LET source == url_list[url_idx]
     IN  IF source.t = "Image"
           THEN /\ pil_images' =
                     Append(pil_images, LoadedImage(source, keep_alpha_channel))
                /\ pil_masks' = Append(pil_masks, LoadedMask(source))
           ELSE UNCHANGED <<pil_images, pil_masks>>
  /\ url_idx' = url_idx + 1
  /\ UNCHANGED <<notLoader, loadInputs, load_pc, url_list, image_tensors,
                 mask_tensors, load_out>>

\* lines 321-328: no image loaded.  The class defines no
\* _create_empty_image, so evaluating line 325 raises AttributeError.
LoadedNothing ==
  /\ load_pc = "load" /\ url_idx > Len(url_list)
  /\ Len(pil_images) = 0
  /\ load_out' = LoadRaise("AttributeError")
  /\ load_pc' = "raised"
  /\ UNCHANGED <<notLoader, loadInputs, url_list, url_idx, pil_images,
                 pil_masks, image_tensors, mask_tensors>>

\* lines 321-332
LoadedSome ==
  /\ load_pc = "load" /\ url_idx > Len(url_list)
  /\ Len(pil_images) > 0
  /\ image_tensors' = <<>> /\ mask_tensors' = <<>>
  /\ url_idx' = 1 /\ load_pc' = "convert"
  /\ UNCHANGED <<notLoader, loadInputs, url_list, pil_images, pil_masks,
                 load_out>>

\* one iteration of `for pil_image, pil_mask in zip(...)` (lines 334-346)
ConvertImage ==
  /\ load_pc = "convert" /\ url_idx <= Len(pil_images)
  /\ image_tensors' =
       Append(image_tensors, PilToTensor(pil_images[url_idx], keep_alpha_channel))
  /\ mask_tensors' =
       Append(mask_tensors, MaskTensor(pil_images[url_idx], pil_masks[url_idx]))
  /\ url_idx' = url_idx + 1
  /\ UNCHANGED <<notLoader, loadInputs, load_pc, url_list, pil_images,
                 pil_masks, load_out>>

Converted == load_pc = "convert" /\ url_idx > Len(pil_images)

\* lines 349-351: list mode
ReturnList ==
  /\ Converted /\ output_mode
  /\ load_out' = LoadReturn(image_tensors, mask_tensors, Len(pil_images) > 0)
  /\ load_pc' = "returned"
  /\ UNCHANGED <<notLoader, loadInputs, url_list, url_idx, pil_images,
                 pil_masks, image_tensors, mask_tensors>>

\* lines 369-370: batch mode with one image
ReturnSingle ==
  /\ Converted /\ ~output_mode /\ ~(Len(image_tensors) > 1)
  /\ load_out' = LoadReturn(image_tensors, mask_tensors, Len(pil_images) > 0)
  /\ load_pc' = "returned"
  /\ UNCHANGED <<notLoader, loadInputs, url_list, url_idx, pil_images,
                 pil_masks, image_tensors, mask_tensors>>

\* lines 354-363: batch mode, sizes differ
ReturnMismatch ==
  /\ Converted /\ ~output_mode /\ Len(image_tensors) > 1
  /\ HasSizeMismatch(image_tensors)
  /\ load_out' = LoadReturn(image_tensors, mask_tensors, Len(pil_images) > 0)
  /\ load_pc' = "returned"
  /\ UNCHANGED <<notLoader, loadInputs, url_list, url_idx, pil_images,
                 pil_masks, image_tensors, mask_tensors>>

\* lines 354-368: batch mode, sizes agree; torch.cat and torch.stack raise
\* RuntimeError on tensors they cannot join, and nothing catches it.
ReturnBatch ==
  /\ Converted /\ ~output_mode /\ Len(image_tensors) > 1
  /\ ~HasSizeMismatch(image_tensors)
  /\ IF CanCat(image_tensors) /\ CanStack(mask_tensors)
       THEN /\ load_out' = LoadReturn(<<Cat(image_tensors)>>,
                                      <<Stack(mask_tensors)>>,
                                      Len(pil_images) > 0)
            /\ load_pc' = "returned"
       ELSE /\ load_out' = LoadRaise("RuntimeError")
            /\ load_pc' = "raised"
  /\ UNCHANGED <<notLoader, loadInputs, url_list, url_idx, pil_images,
                 pil_masks, image_tensors, mask_tensors>>

LoadCalls ==
  [urls : SeqsUpTo(UrlLines, MaxUrls), upload : {"none", "absent", "present"},
   keep_alpha_channel : BOOLEAN, output_mode : BOOLEAN]

InitLoad ==
  /\ JsonParserIdle /\ ColorizationIdle /\ SaverIdle
  /\ \E c \in LoadCalls :
       /\ urls = c.urls /\ upload = c.upload
       /\ keep_alpha_channel = c.keep_alpha_channel
       /\ output_mode = c.output_mode
  /\ load_pc = "call" /\ url_list = <<>> /\ url_idx = 1
  /\ pil_images = <<>> /\ pil_masks = <<>>
  /\ image_tensors = <<>> /\ mask_tensors = <<>>
  /\ load_out = NotCalled

NextLoad ==
  \/ LoadEmpty \/ LoadBegin \/ LoadUrl \/ LoadedNothing \/ LoadedSome
  \/ ConvertImage
  \/ ReturnList \/ ReturnSingle \/ ReturnMismatch \/ ReturnBatch

SpecLoad == InitLoad /\ [][NextLoad]_vars

----------------------------------------------------------------------------
(* OldPhotoColorizationNode: _initialize_colorizer, _colorize_single_image *)
(* and colorize_images.  An image batch is its length and channel count;   *)
(* the quality setting only resizes the picture and is left out.  The      *)
(* ModelScope pipeline and the file system are the environment: building   *)
(* the pipeline, writing the temporary JPEG and running the model may each *)
(* fail.                                                                   *)

\* Most images in one batch.
MaxBatch == 2
\* Most colorize_images calls on one node.
MaxColorizeCalls == 3

\* The object the n-th call of pipeline(...) returned
Pipeline(n) == [t |-> "Pipeline", id |-> n]

ImageBatches == [n : 0..MaxBatch, channels : {1, 3, 4}]

\* process_info, by kind
Colorized == "Colorized"          \* "上色成功 - ..."
NoOutputImg == "NoOutputImg"      \* "上色失败：模型未返回有效结果"
ColorizeError == "ColorizeError"  \* f"上色失败: {str(e)}"
\* "模型初始化失败"
InitFailed == [kind |-> "InitFailed"]
\* f"处理失败: {str(e)}"
BatchFailed == [kind |-> "BatchFailed"]
\* " | ".join(process_infos)
CombinedInfo(infos) == [kind |-> "Combined", infos |-> infos]

ColorReturn(img, info) ==
  [returned |-> TRUE, raised |-> "none", image |-> img, info |-> info]

\* line 40: `if self.colorizer is None`
NeedsInitAlways(c) == TRUE
NeedsInit(c) == c = None

\* _tensor_to_pil: Image.fromarray gives RGB for 3 channels, RGBA for 4 and
\* raises TypeError for an H x W x 1 array.
TensorToPil(channels) ==
  CASE channels = 3 -> "RGB" [] channels = 4 -> "RGBA" [] OTHER -> "TypeError"
\* The JPEG writer refuses mode RGBA with OSError.
JpegWritable(mode) == mode # "RGBA"

StartLoop ==
  /\ col_pc' = "loop" /\ col_i' = 1
  /\ output_images' = <<>> /\ process_infos' = <<>>

\* lines 216, 40-47: the pipeline is built
BuildPipeline ==
  /\ col_pc = "call" /\ NeedsInit(colorizer)
  /\ pipeline_calls' = pipeline_calls + 1
  /\ colorizer' = Pipeline(pipeline_calls + 1)
  /\ StartLoop
  /\ UNCHANGED <<notColorization, temp_files, temp_made, col_calls,
                 batch_image, input_path, pil_image, single_out, col_out>>

\* lines 216-219, 40-50: pipeline(...) raises
BuildPipelineFails ==
  /\ col_pc = "call" /\ NeedsInit(colorizer)
  /\ pipeline_calls' = pipeline_calls + 1
  /\ col_out' = ColorReturn(batch_image, InitFailed)
  /\ col_pc' = "returned"
  /\ UNCHANGED <<notColorization, colorizer, temp_files, temp_made,
                 col_calls, batch_image, col_i, input_path, pil_image,
                 single_out, output_images, process_infos>>

\* lines 216, 40, 51: already initialized
ReusePipeline ==
  /\ col_pc = "call" /\ ~NeedsInit(colorizer)
  /\ StartLoop
  /\ UNCHANGED <<notColorization, colorNode, col_calls, batch_image,
                 input_path, pil_image, single_out, col_out>>

\* lines 226-230, 246-248: _tensor_to_pil raises
TensorToPilFails ==
  /\ col_pc = "loop" /\ col_i <= batch_image.n
  /\ TensorToPil(batch_image.channels) = "TypeError"
  /\ col_out' = ColorReturn(batch_image, BatchFailed)
  /\ col_pc' = "returned"
  /\ UNCHANGED <<notColorization, colorNode, col_calls, batch_image, col_i,
                 input_path, pil_image, single_out, output_images,
                 process_infos>>

\* lines 226-233, 150-168: NamedTemporaryFile(delete=False) creates the file
CreateTemp ==
  /\ col_pc = "loop" /\ col_i <= batch_image.n
  /\ TensorToPil(batch_image.channels) # "TypeError"
  /\ pil_image' = TensorToPil(batch_image.channels)
  /\ temp_made' = temp_made + 1
  /\ input_path' = temp_made + 1
  /\ temp_files' = temp_files \cup {temp_made + 1}
  /\ col_pc' = "save"
  /\ UNCHANGED <<notColorization, colorizer, pipeline_calls, col_calls,
                 batch_image, col_i, single_out, output_images,
                 process_infos, col_out>>

\* line 169-170: pil_image.save inside the `with`, before the try: when it
\* raises, the `with` closes the file and the exception leaves
\* _colorize_single_image
SaveTemp ==
  /\ col_pc = "save"
  /\ \E disk_ok \in BOOLEAN :
       col_pc' = IF JpegWritable(pil_image) /\ disk_ok
                   THEN "run" ELSE "single_raised"
  /\ UNCHANGED <<notColorization, colorNode, col_calls, batch_image, col_i,
                 input_path, pil_image, single_out, output_images,
                 process_infos, col_out>>

\* lines 171-196: the try block.  Calling None raises TypeError, which the
\* except clause of line 194 catches like any failure of the model.
RunColorizer ==
  /\ col_pc = "run"
  /\ \E outcome \in {"output_img", "no_output_img", "raises"} :
       single_out' =
         IF colorizer = None \/ outcome = "raises"
           THEN [t |-> "single", colorized |-> FALSE, info |-> ColorizeError]
         ELSE IF outcome = "output_img"
           THEN [t |-> "single", colorized |-> TRUE, info |-> Colorized]
         ELSE [t |-> "single", colorized |-> FALSE, info |-> NoOutputImg]
  /\ col_pc' = "finally"
  /\ UNCHANGED <<notColorization, colorNode, col_calls, batch_image, col_i,
                 input_path, pil_image, output_images, process_infos,
                 col_out>>

\* lines 197-200: the finally clause
RemoveTemp ==
  /\ col_pc = "finally"
  /\ temp_files' = IF input_path \in temp_files
                     THEN temp_files \ {input_path} ELSE temp_files
  /\ col_pc' = "single_returned"
  /\ UNCHANGED <<notColorization, colorizer, pipeline_calls, temp_made,
                 col_calls, batch_image, col_i, input_path, pil_image,
                 single_out, output_images, process_infos, col_out>>

\* lines 233-238
AppendColorized ==
  /\ col_pc = "single_returned"
  /\ output_images' = Append(output_images, single_out.colorized)
  /\ process_infos' = Append(process_infos, single_out.info)
  /\ col_i' = col_i + 1
  /\ col_pc' = "loop"
  /\ UNCHANGED <<notColorization, colorNode, col_calls, batch_image,
                 input_path, pil_image, single_out, col_out>>

\* lines 246-248: the exception that left _colorize_single_image
SingleRaised ==
  /\ col_pc = "single_raised"
  /\ col_out' = ColorReturn(batch_image, BatchFailed)
  /\ col_pc' = "returned"
  /\ UNCHANGED <<notColorization, colorNode, col_calls, batch_image, col_i,
                 input_path, pil_image, single_out, output_images,
                 process_infos>>

\* lines 241-248: torch.cat of an empty list raises
ColorizeReturn ==
  /\ col_pc = "loop" /\ col_i > batch_image.n
  /\ col_out' =
       IF output_images = <<>> THEN ColorReturn(batch_image, BatchFailed)
       ELSE ColorReturn([n |-> Len(output_images), channels |-> 3,
                         colorized |-> output_images],
                        CombinedInfo(process_infos))
  /\ col_pc' = "returned"
  /\ UNCHANGED <<notColorization, colorNode, col_calls, batch_image, col_i,
                 input_path, pil_image, single_out, output_images,
                 process_infos>>

\* the host calls colorize_images again on the same node
NextColorizeCall ==
  /\ col_pc = "returned" /\ col_calls < MaxColorizeCalls
  /\ col_calls' = col_calls + 1
  /\ batch_image' \in ImageBatches
  /\ col_pc' = "call" /\ col_i' = 1
  /\ input_path' = 0 /\ pil_image' = "none" /\ single_out' = NoSingle
  /\ output_images' = <<>> /\ process_infos' = <<>>
  /\ col_out' = NotCalled
  /\ UNCHANGED <<notColorization, colorNode>>

InitColorize ==
  /\ JsonParserIdle /\ LoaderIdle /\ SaverIdle
  /\ colorizer = None /\ pipeline_calls = 0
  /\ temp_files = {} /\ temp_made = 0
  /\ col_calls = 1 /\ batch_image \in ImageBatches
  /\ col_pc = "call" /\ col_i = 1
  /\ input_path = 0 /\ pil_image = "none" /\ single_out = NoSingle
  /\ output_images = <<>> /\ process_infos = <<>>
  /\ col_out = NotCalled

NextColorize ==
  \/ BuildPipeline \/ BuildPipelineFails \/ ReusePipeline
  \/ TensorToPilFails \/ CreateTemp \/ SaveTemp \/ RunColorizer
  \/ RemoveTemp \/ AppendColorized \/ SingleRaised \/ ColorizeReturn
  \/ NextColorizeCall

SpecColorize == InitColorize /\ [][NextColorize]_vars

----------------------------------------------------------------------------
(* SaveImageUnifiedOutput: _generate_filename, _get_save_path and          *)
(* save_images.  File names are sequences of characters, a file is its     *)
(* folder and name, the image batch is its length.  The format options     *)
(* (quality, compress_level, metadata) only change the bytes written and   *)
(* are left out.  The host's folder_paths.get_save_image_path and the file *)
(* system are the environment: the host picks the counter of the default   *)
(* path, creating the folder or writing a file may fail, and files may be  *)
(* deleted between calls.  One call falls within one second of the clock   *)
(* and the next call comes a second later.                                 *)

\* Most images in one save_images batch.
MaxSaveBatch == 2
\* Most save_images calls on one node.
MaxSaveCalls == 2
\* Counters the host may return for the default path.
HostCounters == {1, 2}

Tensor(n) == [t |-> "Tensor", n |-> n]
File(folder, name) == [folder |-> folder, name |-> name]

BatchNumToken == <<"%", "b", "a", "t", "c", "h", "_", "n", "u", "m", "%">>
Prefixes == {<<"a">>, <<"a">> \o BatchNumToken}
Subfolders == {<<>>, <<" ", "s">>}
ImageFormats == {"PNG", "JPEG"}

\* str.startswith
StartsWith(s, prefix) ==
  Len(s) >= Len(prefix) /\ SubSeq(s, 1, Len(prefix)) = prefix

\* str.replace(old, new) for a non-empty old
RECURSIVE Replace(_, _, _)
Replace(s, old, new) ==
  IF Len(s) < Len(old) THEN s
  ELSE IF StartsWith(s, old)
    THEN new \o Replace(SubSeq(s, Len(old) + 1, Len(s)), old, new)
  ELSE <<Head(s)>> \o Replace(Tail(s), old, new)

\* f"{n:0{width}d}"
RECURSIVE ZeroPad(_, _)
ZeroPad(digits, width) ==
  IF Len(digits) >= width THEN digits ELSE ZeroPad(<<"0">> \o digits, width)

\* datetime.now().strftime("%Y%m%d_%H%M%S"): one text per second
Timestamp(now) == <<"t">> \o NatChars(now)

\* lines 115-117
Extension(format) ==
  IF format = "JPEG" THEN <<"j", "p", "g">> ELSE <<"p", "n", "g">>

\* _generate_filename
GenerateFilename(prefix, batch, count, stamped, format, now) ==
  Replace(prefix, BatchNumToken, NatChars(batch))
    \o <<"_">> \o ZeroPad(NatChars(count), 5)
    \o (IF stamped THEN <<"_">> \o Timestamp(now) ELSE <<>>)
    \o <<".">> \o Extension(format)

\* lines 212-213
ExistingFiles(folder, prefix) ==
  {f \in files : f.folder = folder /\ StartsWith(f.name, prefix)}

SaveReturn(tensor, info, paths) ==
  [returned |-> TRUE, raised |-> "none",
   images |-> tensor, info |-> info, file_paths |-> paths]
\* f"成功保存 {saved_count}/{len(images)} 张图像到 {full_output_folder}..."
SavedInfo(saved, total, folder) ==
  [kind |-> "Saved", saved_count |-> saved, total |-> total,
   folder |-> folder]
\* f"保存失败: {str(e)}"
SaveFailedInfo == [kind |-> "SaveFailed"]

\* line 305
RecordPathNever(paths, path) == paths
RecordPath(paths, path) == Append(paths, path)

BeginLoop ==
  /\ batch_number' = 0 /\ file_paths' = <<>> /\ saved_count' = 0
  /\ save_pc' = "loop"

\* lines 253-260, 206-216: custom subfolder
SavePathCustom ==
  /\ save_pc = "call" /\ images.n > 0
  /\ ~IsBlank(custom_subfolder)
  /\ LET folder == StripChars(custom_subfolder, Whitespace)
     IN  /\ full_output_folder' = folder
         /\ filename' = filename_prefix
         /\ counter' = Cardinality(ExistingFiles(folder, filename_prefix)) + 1
  /\ BeginLoop
  /\ UNCHANGED <<notSaver, saveDisk, saveInputs, save_out>>

\* lines 253-260, 217-224: the host's default path
SavePathDefault ==
  /\ save_pc = "call" /\ images.n > 0
  /\ IsBlank(custom_subfolder)
  /\ full_output_folder' = <<>>
  /\ filename' = filename_prefix
  /\ counter' \in HostCounters
  /\ BeginLoop
  /\ UNCHANGED <<notSaver, saveDisk, saveInputs, save_out>>

\* lines 253-256, 327-330: images[0] of an empty batch raises IndexError;
\* os.makedirs, os.listdir and the host function may raise
SavePathFails ==
  /\ save_pc = "call"
  /\ save_out' = SaveReturn(images, SaveFailedInfo, <<>>)
  /\ save_pc' = "returned"
  /\ UNCHANGED <<notSaver, saveDisk, saveInputs, saveLocals>>

\* one iteration of `for batch_number, image in enumerate(images)`
\* (lines 263-310); _tensor_to_pil or pil_image.save may raise
SaveImage ==
  /\ save_pc = "loop" /\ batch_number < images.n
  /\ \E saved \in BOOLEAN :
       LET file_name ==
             GenerateFilename(filename, batch_number,
                              counter + batch_number, include_timestamp,
                              image_format, clock)
           file_path == File(full_output_folder, file_name)
       IN  IF saved
             THEN /\ files' = files \cup {file_path}
                  /\ file_paths' = RecordPath(file_paths, file_path)
                  /\ saved_count' = saved_count + 1
             ELSE UNCHANGED <<files, file_paths, saved_count>>
  /\ batch_number' = batch_number + 1
  /\ UNCHANGED <<notSaver, clock, saveInputs, save_pc, full_output_folder,
                 filename, counter, save_out>>

\* lines 312-325
SaveImagesReturn ==
  /\ save_pc = "loop" /\ ~(batch_number < images.n)
  /\ save_out' = SaveReturn(images,
                            SavedInfo(saved_count, images.n,
                                      full_output_folder),
                            file_paths)
  /\ save_pc' = "returned"
  /\ UNCHANGED <<notSaver, saveDisk, saveInputs, saveLocals>>

\* Every batch size, prefix and folder as PNG without timestamp; every
\* format with and without timestamp for a batch of one.
SaveCalls ==
  [images : {Tensor(n) : n \in 0..MaxSaveBatch},
   filename_prefix : Prefixes, image_format : {"PNG"},
   include_timestamp : {FALSE}, custom_subfolder : Subfolders]
  \cup
  [images : {Tensor(1)},
   filename_prefix : {<<"a">>}, image_format : ImageFormats,
   include_timestamp : BOOLEAN, custom_subfolder : Subfolders]

\* the host calls save_images again on the same node
NextSaveCall ==
  /\ save_pc = "returned" /\ save_calls < MaxSaveCalls
  /\ save_calls' = save_calls + 1
  /\ \E c \in SaveCalls :
       /\ images' = c.images /\ filename_prefix' = c.filename_prefix
       /\ image_format' = c.image_format
       /\ include_timestamp' = c.include_timestamp
       /\ custom_subfolder' = c.custom_subfolder
  /\ save_pc' = "call"
  /\ full_output_folder' = <<>> /\ filename' = <<>> /\ counter' = 0
  /\ batch_number' = 0 /\ file_paths' = <<>> /\ saved_count' = 0
  /\ save_out' = NotCalled
  /\ clock' = clock + 1
  /\ UNCHANGED <<notSaver, files>>

\* somebody deletes a saved file between two calls
DeleteFile ==
  /\ save_pc = "returned" /\ save_calls < MaxSaveCalls
  /\ \E f \in files : files' = files \ {f}
  /\ UNCHANGED <<notSaver, clock, saveInputs, save_pc, saveLocals, save_out>>

InitSave ==
  /\ JsonParserIdle /\ LoaderIdle /\ ColorizationIdle
  /\ files = {} /\ clock = 0 /\ save_calls = 1
  /\ \E c \in SaveCalls :
       /\ images = c.images /\ filename_prefix = c.filename_prefix
       /\ image_format = c.image_format
       /\ include_timestamp = c.include_timestamp
       /\ custom_subfolder = c.custom_subfolder
  /\ save_pc = "call"
  /\ full_output_folder = <<>> /\ filename = <<>> /\ counter = 0
  /\ batch_number = 0 /\ file_paths = <<>> /\ saved_count = 0
  /\ save_out = NotCalled

NextSave ==
  \/ SavePathCustom \/ SavePathDefault \/ SavePathFails
  \/ SaveImage \/ SaveImagesReturn
  \/ NextSaveCall \/ DeleteFile

SpecSave == InitSave /\ [][NextSave]_vars

----------------------------------------------------------------------------
(* Properties *)

Returned == pc \in {"ret", "done"}
Failed == Returned /\ ret.info.kind \in FailureKinds
Succeeded == Returned /\ ret.info.kind = "Success"
JsonCallDone ==
  /\ pc = "done" /\ entry = "parse_input" /\ input_type = "json"
  /\ JsonLoads(input_string).ok
RootValue == JsonLoads(input_string).value
AllWhitespace(path) == \A i \in 1..Len(path) : path[i] \in Whitespace
AllDigits(path) == path # <<>> /\ \A i \in 1..Len(path) : path[i] \in Digits
Labels(parts, n) == [i \in 1..n |-> PartLabel(parts[i])]
HasKey(cur, key) == \E i \in 1..Len(cur.entries) : cur.entries[i].k = key
ValueAt(cur, key) ==
  cur.entries[CHOOSE i \in 1..Len(cur.entries) : cur.entries[i].k = key].v
Scalar(v) == v.t \in {"NoneType", "bool", "int", "str"}
DefaultUsed ==
  /\ out.path_info.kind = "UsedDefault"
  /\ out.result = default_value
\* The accessor the walker is about to examine
WalkPending == pc = "walk" /\ visited < Len(path_parts)
PendingPart == path_parts[visited + 1]

\* C1 as stated: with valid JSON and a non-empty default, the default is the
\* result exactly when resolution fails or resolves to null, for every path,
\* the empty path (which resolves to the root value) included.
C1_DefaultForEveryPath ==
  (JsonCallDone /\ default_value # "") =>
    (DefaultUsed <=>
       IF IsBlank(json_path) THEN RootValue = JNull
       ELSE Failed \/ (Succeeded /\ current_data = JNull))

\* C1 amended: for a path that is not blank the default is the result
\* exactly when resolution fails or resolves to null; "", 0 and false are
\* formatted, not replaced; with an empty default a failure or null gives ""
\* and the diagnostic.  For a blank path the default is never used: the
\* whole document is formatted (null as "").
C1_DefaultPolicy ==
  JsonCallDone =>
    IF AllWhitespace(json_path)
      THEN /\ out.path_info.kind = "WholeJson"
           /\ out.result = FormatOutput(RootValue, output_format)
      ELSE LET nothing == Failed \/ (Succeeded /\ current_data = JNull)
           IN  /\ default_value # "" => (DefaultUsed <=> nothing)
               /\ (default_value # "" /\ nothing) =>
                     out.path_info.inner = ret.info
               /\ (default_value = "" /\ nothing) =>
                     out = [result |-> "", path_info |-> ret.info]
               /\ ~nothing =>
                     out = [result |-> FormatOutput(current_data, output_format),
                            path_info |-> ret.info]
               /\ (Succeeded /\ current_data \in
                      {JStr(<<>>), JInt(0), JBool(FALSE)}) => ~DefaultUsed

C1_Witness ==
  /\ JsonCallDone /\ default_value # "" /\ ~IsBlank(json_path)
  /\ Succeeded /\ current_data = JNull /\ DefaultUsed

\* Reference semantics of one walk step, used to locate the failing accessor
CanApply(v, part) ==
  IF v.t = "dict" THEN DictHas(v, part)
  ELSE IF v.t = "list"
    THEN ListIndex(part).ok /\ InRange(ListIndex(part).n, Len(v.items))
  ELSE FALSE
Applied(v, part) ==
  IF v.t = "dict" THEN DictGet(v, part)
  ELSE ListGet(v.items, ListIndex(part).n)
RECURSIVE FirstFailure(_, _, _)
FirstFailure(v, parts, k) ==
  IF k > Len(parts) THEN 0
  ELSE IF ~CanApply(v, parts[k]) THEN k
  ELSE FirstFailure(Applied(v, parts[k]), parts, k + 1)

\* C2: when resolution fails at accessor k, the walk has examined exactly k
\* accessors and the trace holds exactly the labels of accessors 1..k.
C2_HaltsAtFailure ==
  Failed =>
    /\ visited = FirstFailure(data, path_parts, 1)
    /\ visited >= 1 /\ visited <= Len(path_parts)
    /\ Len(traversed_path) = visited
    /\ traversed_path = Labels(path_parts, visited)

C2_Witness ==
  /\ Failed /\ visited = 3 /\ Len(path_parts) = 4
  /\ Len(traversed_path) = 3

\* C3 as stated: the trace reported with a key-not-found failure holds only
\* the accessors applied successfully and stops before the failing step.
C3_TraceStopsBeforeFailure ==
  (Failed /\ ret.info.kind = "KeyNotFound") =>
    ret.info.path = JoinDot(Labels(path_parts, visited - 1))

\* C3 amended: the trace reported with a key-not-found failure holds the
\* accessors applied successfully followed by the failing one; for 'a.c' on
\* a mapping whose "a" has no "c" it is "a.c" and the reason names key 'c'.
C3_TraceIncludesFailingStep ==
  (Failed /\ ret.info.kind = "KeyNotFound") =>
    /\ ret.info.path = JoinDot(Labels(path_parts, visited))
    /\ ret.info.key = PartLabel(path_parts[visited])
    /\ (json_path = <<"a", ".", "c">> /\ data = DocNested) =>
          ret.info = [kind |-> "KeyNotFound", key |-> "c", path |-> "a.c"]

C3_Witness ==
  /\ Failed /\ json_path = <<"a", ".", "c">> /\ data = DocNested
  /\ ret.info = [kind |-> "KeyNotFound", key |-> "c", path |-> "a.c"]

\* C4: a bracketed integer token applied to a mapping is tried as a string
\* key: '[n]' against a mapping that has the key "n" succeeds with its value.
C4_IndexTriedAsKey ==
  (/\ Returned /\ data # Unset /\ IsDict(data)
   /\ Len(path_parts) = 1 /\ path_parts[1].k = "int"
   /\ \E i \in 1..Len(data.entries) :
         Join(data.entries[i].k) = IntToStr(path_parts[1].n))
  => /\ Succeeded
     /\ \E i \in 1..Len(data.entries) :
          /\ Join(data.entries[i].k) = IntToStr(path_parts[1].n)
          /\ ret.value = data.entries[i].v

C4_Reached ==
  /\ Failed /\ IsDict(data) /\ json_path = <<"[", "0", "]">>
  /\ path_parts = <<IntPart(0)>> /\ HasKey(data, <<"0">>)

\* C5 as stated: an all-digit dot-segment resolved against a sequence never
\* selects the element at that position.
C5_DigitSegmentNeverIndexes ==
  (Returned /\ data # Unset /\ IsList(data) /\ AllDigits(json_path)) =>
    ~(/\ Succeeded
      /\ PyInt(json_path).n < Len(data.items)
      /\ ret.value = data.items[PyInt(json_path).n + 1])

\* C5 amended: a non-empty dot-segment is always tokenized as a string
\* accessor, even when all digits; against a mapping it is the string key,
\* against a sequence an all-digit segment d is converted to the integer d
\* and selects the element at position d when d is below the length
\* (out-of-range failure otherwise).
C5_DotSegmentIsStrToken ==
  /\ (pc \in {"walk", "ret", "done"} /\ data # Unset
      /\ \A i \in 1..Len(json_path) : json_path[i] # "[") =>
        \A i \in 1..Len(path_parts) : path_parts[i].k = "str"
  /\ (Returned /\ data # Unset /\ AllDigits(json_path)) =>
        /\ path_parts = <<StrPart(json_path)>>
        /\ IsDict(data) =>
              IF HasKey(data, json_path)
                THEN Succeeded /\ ret.value = ValueAt(data, json_path)
                ELSE ret.info.kind = "KeyNotFound"
        /\ IsList(data) =>
              LET d == PyInt(json_path).n
              IN  IF d < Len(data.items)
                    THEN Succeeded /\ ret.value = data.items[d + 1]
                    ELSE ret.info = IndexOutOfRangeInfo(d, Len(data.items))

C5_Witness ==
  /\ Succeeded /\ data = DocList /\ json_path = <<"0">>
  /\ path_parts = <<StrPart(<<"0">>)>> /\ ret.value = DocList.items[1]

\* C6: on a sequence of length n an integer accessor i selects element i
\* exactly when 0 <= i < n; any other integer, negative ones included, fails
\* with an out-of-range reason citing i and n and selects nothing.
C6_IndexBounds ==
  [][ (WalkPending /\ IsList(current_data) /\ PendingPart.k = "int") =>
        LET i == PendingPart.n
            n == Len(current_data.items)
        IN  IF 0 <= i /\ i < n
              THEN /\ current_data' = current_data.items[i + 1]
                   /\ pc' = "walk" /\ ret' = ret
              ELSE /\ pc' = "ret"
                   /\ ret' = [value |-> JNull,
                              info  |-> [kind |-> "IndexOutOfRange",
                                         index |-> i, length |-> n]]
                   /\ current_data' = current_data ]_vars

C6_Witness ==
  /\ Failed /\ json_path = <<"a", "[", "-", "1", "]">>
  /\ ret.info = [kind |-> "IndexOutOfRange", index |-> 0 - 1, length |-> 2]

\* A token int() rejects: after trimming whitespace and one sign it is not a
\* run of digits (single underscores allowed between digits).
NonNumeric(token) == ~PyInt(token).ok

\* C7: on a sequence a non-numeric accessor token fails with an
\* invalid-array-index reason naming the token and selects nothing.
C7_InvalidIndex ==
  [][ (/\ WalkPending /\ IsList(current_data)
       /\ PendingPart.k = "str" /\ NonNumeric(PendingPart.s)) =>
        /\ pc' = "ret"
        /\ ret' = [value |-> JNull,
                   info  |-> [kind |-> "InvalidIndex",
                              part |-> Join(PendingPart.s)]]
        /\ current_data' = current_data ]_vars

C7_Witness ==
  /\ Failed /\ json_path = <<"a", "[", "x", "]">> /\ data = DocArray
  /\ ret.info = [kind |-> "InvalidIndex", part |-> "x"]

\* C8: on a scalar or null any accessor fails at once with a type-mismatch
\* reason naming the accessor and the type of the current value.
C8_ScalarTypeMismatch ==
  [][ (WalkPending /\ Scalar(current_data)) =>
        /\ pc' = "ret"
        /\ ret' = [value |-> JNull,
                   info  |-> [kind |-> "TypeMismatch",
                              type |-> current_data.t,
                              part |-> PartLabel(PendingPart)]]
        /\ visited' = visited + 1
        /\ current_data' = current_data ]_vars

C8_Witness ==
  /\ Failed /\ visited = 3 /\ Len(path_parts) = 4
  /\ ret.info = [kind |-> "TypeMismatch", type |-> "NoneType", part |-> "x"]

\* C9: on a mapping a string-key accessor succeeds exactly when the key is
\* present and then moves to that entry's value; when absent, resolution
\* fails at once with key-not-found and no further accessor is processed.
C9_KeyLookup ==
  [][ /\ (WalkPending /\ IsDict(current_data) /\ PendingPart.k = "str") =>
           IF HasKey(current_data, PendingPart.s)
             THEN /\ current_data' = ValueAt(current_data, PendingPart.s)
                  /\ pc' = "walk" /\ ret' = ret
             ELSE /\ pc' = "ret"
                  /\ ret'.value = JNull
                  /\ ret'.info.kind = "KeyNotFound"
                  /\ ret'.info.key = Join(PendingPart.s)
                  /\ visited' = visited + 1
                  /\ current_data' = current_data
      /\ Returned => UNCHANGED <<walker, ret>> ]_vars

C9_Witness ==
  /\ Failed /\ ret.info.kind = "KeyNotFound"
  /\ visited = 2 /\ Len(path_parts) = 4
  /\ path_parts[2].k = "str"

\* C10: an empty or all-whitespace path resolves at once to the value
\* itself with the root sentinel; no accessor is produced or applied, and
\* parse_input formats the whole document without entering the extractor.
C10_BlankPathIsRoot ==
  /\ (pc = "ret" /\ AllWhitespace(json_path)) =>
        /\ ret = [value |-> data, info |-> RootInfo]
        /\ path_parts = <<>> /\ visited = 0 /\ traversed_path = <<>>
  /\ (JsonCallDone /\ AllWhitespace(json_path)) =>
        /\ out = [result |-> FormatOutput(RootValue, output_format),
                  path_info |-> [kind |-> "WholeJson"]]
        /\ data = Unset /\ ret.info = NoInfo

C10_Witness ==
  /\ pc = "ret" /\ entry = "_parse_json_path"
  /\ json_path = <<" ", " ", " ", " ">> /\ data = DocNested
  /\ ret = [value |-> DocNested, info |-> RootInfo]

\* The path is one bracket pair around a token without brackets
BracketOnly(path) ==
  /\ Len(path) >= 3 /\ path[1] = "[" /\ path[Len(path)] = "]"
  /\ \A i \in 2..(Len(path) - 1) : path[i] \notin {"[", "]"}
TokenOf(path) == SubSeq(path, 2, Len(path) - 1)
QuoteFree(name) ==
  name # <<>> /\ name[1] \notin QuoteChars /\ name[Len(name)] \notin QuoteChars
Quoted(q, name) == <<q>> \o name \o <<q>>
\* What one accessor does to a value, by the walker's own rules
ResolvesAs(v, part) ==
  IF CanApply(v, part) THEN Succeeded /\ ret.value = Applied(v, part)
  ELSE Failed /\ ret.value = JNull

\* C11 as stated: a bracketed token that is not an integer becomes a string
\* key with exactly one layer of surrounding quotes stripped.
C11_OneQuoteLayerStripped ==
  (Returned /\ data # Unset /\ BracketOnly(json_path)
   /\ NonNumeric(TokenOf(json_path))) =>
    path_parts = <<StrPart(StripOneLayer(TokenOf(json_path)))>>

\* C11 amended: a bracketed token that is not an integer becomes a string
\* key with every leading and trailing quote character stripped (any number
\* of layers, matching or not); so for a name without quotes at its ends
\* [name], ["name"] and ['name'] give the same accessor and resolve alike.
C11_AllQuotesStripped ==
  (Returned /\ data # Unset /\ BracketOnly(json_path)
   /\ NonNumeric(TokenOf(json_path))) =>
    LET token == TokenOf(json_path)
    IN  /\ Len(path_parts) = 1 /\ path_parts[1].k = "str"
        /\ LET key == path_parts[1].s
           IN  /\ key = <<>> \/ QuoteFree(key)
               /\ \E i \in 0..Len(token) :
                    /\ SubSeq(token, i + 1, i + Len(key)) = key
                    /\ \A j \in (1..i) \cup ((i + Len(key) + 1)..Len(token)) :
                          token[j] \in QuoteChars
        /\ \A name \in {token, SubSeq(token, 2, Len(token) - 1)} :
              (/\ QuoteFree(name) /\ NonNumeric(name)
               /\ token \in {name, Quoted("\"", name), Quoted("'", name)})
              => /\ path_parts = <<StrPart(name)>>
                 /\ ResolvesAs(data, StrPart(name))

C11_Witness ==
  /\ Succeeded /\ data = DocNested
  /\ json_path = <<"[", "\"", "\"", "a", "\"", "\"", "]">>
  /\ path_parts = <<StrPart(<<"a">>)>>
  /\ ret.value = ValueAt(DocNested, <<"a">>)

\* C12: a '.' separates segments only outside brackets; between '[' and ']'
\* it stays a character of the token, so 'a[b.c]' gives 'a' and 'b.c'.
C12_DotLiteralInBrackets ==
  [][ (pc = "tok" /\ pos <= Len(json_path) /\ json_path[pos] = ".") =>
        IF in_brackets
          THEN /\ current_part' = Append(current_part, ".")
               /\ path_parts' = path_parts /\ in_brackets'
          ELSE /\ current_part' = <<>>
               /\ path_parts' =
                    IF current_part = <<>> THEN path_parts
                    ELSE Append(path_parts, [k |-> "str", s |-> current_part])
               /\ ~in_brackets' ]_vars
  /\ [](( pc \in {"walk", "ret", "done"} /\ data # Unset
          /\ json_path = <<"a", "[", "b", ".", "c", "]">>) =>
        path_parts = << [k |-> "str", s |-> <<"a">>],
                        [k |-> "str", s |-> <<"b", ".", "c">>] >>)

C12_Witness ==
  /\ Succeeded /\ data = DocArray
  /\ json_path = <<"[", "b", ".", "c", "]">>
  /\ path_parts = <<StrPart(<<"b", ".", "c">>)>>
  /\ ret.value = JStr(<<"x">>)

InsertAt(path, i, piece) ==
  SubSeq(path, 1, i) \o piece \o SubSeq(path, i + 1, Len(path))
\* Positions 0..Len(path) that are the start, the end, or next to a '.'
\* that separates segments (a '.' outside brackets)
SeparatorAt(path, j) ==
  path[j] = "." /\ ~TokScan(TokStart, SubSeq(path, 1, j - 1)).in_brackets
EdgePositions(path) ==
  {0, Len(path)} \cup
  UNION {{j - 1, j} : j \in {k \in 1..Len(path) : SeparatorAt(path, k)}}
EndsInsideBracket(path) == TokScan(TokStart, path).in_brackets
RECURSIVE ResolveValue(_, _, _)
ResolveValue(v, parts, k) ==
  IF k > Len(parts) THEN v
  ELSE IF ~CanApply(v, parts[k]) THEN JNull
  ELSE ResolveValue(Applied(v, parts[k]), parts, k + 1)

\* C13 as stated: for every path, an extra '.' or an empty '[]' at the
\* start, at the end or next to a separator changes neither the accessors
\* nor the resolved value.
C13_EmptySegmentsIgnored ==
  pc = "ret" =>
    \A i \in EdgePositions(json_path) :
      \A piece \in {<<".">>, <<"[", "]">>} :
        /\ Accessors(InsertAt(json_path, i, piece)) = path_parts
        /\ ret.value = ResolveValue(data, Accessors(InsertAt(json_path, i, piece)), 1)

\* C13 amended: the same, for a path that is empty or has a character that
\* is not whitespace, and with a trailing '.' only on a path that does not
\* end inside an unclosed bracket.
C13_EmptySegmentsIgnoredOutsideBrackets ==
  (pc = "ret" /\ (json_path = <<>> \/ ~AllWhitespace(json_path))) =>
    /\ path_parts = Accessors(json_path)
    /\ \A i \in 1..Len(path_parts) :
          path_parts[i].k = "str" /\ path_parts[i].s = <<>> =>
            \E j \in 1..Len(json_path) : json_path[j] \in QuoteChars
    /\ \A i \in EdgePositions(json_path) :
        \A piece \in {<<".">>, <<"[", "]">>} :
          ~(piece = <<".">> /\ i = Len(json_path)
            /\ EndsInsideBracket(json_path)) =>
            /\ Accessors(InsertAt(json_path, i, piece)) = path_parts
            /\ ret.value =
                 ResolveValue(data, Accessors(InsertAt(json_path, i, piece)), 1)

C13_Witness ==
  /\ Succeeded /\ data = DocNested
  /\ json_path = <<".", "a", ".", "b", ".">>
  /\ path_parts = <<StrPart(<<"a">>), StrPart(<<"b">>)>>
  /\ ret.value = JInt(1)

\* C14: with input_type 'json' and invalid JSON, parse_input returns the
\* parse-error outcome: a diagnostic no path resolution produces, a result
\* carrying the parser's message; extraction never starts and the default
\* is not consulted.
C14_InvalidJsonReported ==
  (pc = "done" /\ input_type = "json" /\ ~JsonLoads(input_string).ok) =>
    /\ out.path_info = [kind |-> "InvalidJson"]
    /\ out.path_info.kind \notin
         FailureKinds \cup {"Success", "Root", "UsedDefault", "WholeJson"}
    /\ out.result = "JSON parse error: " \o JsonLoads(input_string).msg
    /\ out.result # default_value
    /\ data = Unset /\ ret.info = NoInfo
    /\ path_parts = <<>> /\ visited = 0

C14_Witness ==
  /\ pc = "done" /\ input_type = "json" /\ input_string = TextTruncated
  /\ default_value = "DEFAULT" /\ json_path = <<"a", ".", "b">>
  /\ out.result = "JSON parse error: Expecting value: line 1 column 6 (char 5)"

ReportKinds ==
  FailureKinds \cup {"Success", "PlainString", "InvalidJson", "WholeJson"}
\* parse_input has returned a pair of strings: a result and a diagnostic of
\* a known kind (possibly wrapped as "default used: <diagnostic>")
ReturnedStrings ==
  /\ pc = "done"
  /\ out.result \in STRING
  /\ \/ out.path_info.kind \in ReportKinds
     \/ /\ out.path_info.kind = "UsedDefault"
        /\ out.path_info.inner.kind \in FailureKinds \cup {"Success"}
  /\ ret.info.kind \in FailureKinds =>
       /\ out.path_info \in {ret.info, [kind |-> "UsedDefault", inner |-> ret.info]}
       /\ out.result \in {"", default_value}

\* C15: every parse_input call terminates with a pair of strings; every
\* failure kind comes back as a diagnostic and no exception leaves the call.
C15_AlwaysReturnsStrings ==
  /\ [](pc # "raised")
  /\ [](pc = "done" => ReturnedStrings)
  /\ (entry = "parse_input") ~> ReturnedStrings

C15_Witness ==
  /\ ReturnedStrings /\ ret.info.kind = "InvalidIndex"
  /\ out.path_info = [kind |-> "UsedDefault", inner |-> ret.info]

\* The value _format_output was given in this call, when it was called
FormatCalled ==
  /\ JsonCallDone
  /\ \/ out.path_info.kind = "WholeJson"
     \/ Succeeded /\ current_data # JNull
FormattedValue ==
  IF out.path_info.kind = "WholeJson" THEN RootValue ELSE current_data

\* C18 as stated: for every successful resolution, the CompactJson text of
\* the resolved value parses back to the resolved value.
C18_RoundTripEveryValue ==
  (JsonCallDone /\ output_format = "json"
   /\ (out.path_info.kind = "WholeJson" \/ Succeeded)) =>
    /\ FormatCalled => out.result = Join(CompactJsonChars(FormattedValue))
    /\ JsonParse(CompactJsonChars(FormattedValue)) =
         [ok |-> TRUE, value |-> FormattedValue]

\* C18 amended: for every successful resolution to a value other than
\* null, the CompactJson text parses back to the resolved value.
C18_RoundTripNonNull ==
  (FormatCalled /\ output_format = "json" /\ FormattedValue # JNull) =>
    /\ out.result = Join(CompactJsonChars(FormattedValue))
    /\ JsonParse(CompactJsonChars(FormattedValue)) =
         [ok |-> TRUE, value |-> FormattedValue]

C18_Witness ==
  /\ FormatCalled /\ output_format = "json" /\ Succeeded
  /\ json_path = <<"[", "2", "]">>
  /\ current_data = JStr(<<"s", ",", " ", "\"", ":", " ">>)
  /\ out.result = "\"s, \\\": \""

\* Raw mode as the claim has it: a composite as the CompactJson text, a
\* scalar in its JSON spelling with strings unquoted.
JsonStyleRaw(v) ==
  CASE v.t \in {"dict", "list"} -> FormatOutput(v, "json")
    [] v.t = "bool" -> IF v.b THEN "true" ELSE "false"
    [] v.t = "int"  -> IntToStr(v.n)
    [] v.t = "str"  -> Join(v.s)

\* C16: in Raw ('string') mode a composite is rendered as compact JSON, the
\* booleans as 'true' and 'false', an integer without a decimal point and a
\* string without quotes.
C16_RawIsJsonStyle ==
  (FormatCalled /\ output_format = "string" /\ FormattedValue # JNull) =>
    out.result = JsonStyleRaw(FormattedValue)

C16_Reached ==
  /\ FormatCalled /\ output_format = "string"
  /\ FormattedValue = JBool(FALSE) /\ out.result = "False"

\* Positions of c that lie outside every string literal
RECURSIVE OutsideFrom(_, _, _)
OutsideFrom(c, i, inString) ==
  IF i > Len(c) THEN {}
  ELSE IF inString
    THEN IF c[i] = "\\" THEN OutsideFrom(c, i + 2, TRUE)
         ELSE IF c[i] = "\"" THEN OutsideFrom(c, i + 1, FALSE)
         ELSE OutsideFrom(c, i + 1, TRUE)
  ELSE IF c[i] = "\"" THEN OutsideFrom(c, i + 1, TRUE)
  ELSE {i} \cup OutsideFrom(c, i + 1, FALSE)
Outside(c) == OutsideFrom(c, 1, FALSE)

\* C17 as stated: in CompactJson ('json') mode the text of a non-null value
\* is valid JSON with no whitespace outside string literals.
C17_NoInsignificantWhitespace ==
  (FormatCalled /\ output_format = "json" /\ FormattedValue # JNull) =>
    LET c == CompactJsonChars(FormattedValue)
    IN  /\ out.result = Join(c)
        /\ JsonParse(c).ok
        /\ \A i \in Outside(c) : c[i] \notin JsonWhitespace

\* C17 amended: the text is valid JSON on one line, and its only
\* whitespace outside string literals is one space after each ',' and ':'.
C17_SingleLineJson ==
  (FormatCalled /\ output_format = "json" /\ FormattedValue # JNull) =>
    LET c == CompactJsonChars(FormattedValue)
    IN  /\ out.result = Join(c)
        /\ JsonParse(c).ok
        /\ \A i \in 1..Len(c) : c[i] \notin {"\n", "\r"}
        /\ \A i \in Outside(c) :
             /\ c[i] \in JsonWhitespace =>
                  /\ c[i] = " " /\ i > 1 /\ (i - 1) \in Outside(c)
                  /\ c[i - 1] \in {",", ":"}
             /\ c[i] \in {",", ":"} =>
                  /\ i + 1 \in Outside(c) /\ c[i + 1] = " "

C17_Witness ==
  /\ FormatCalled /\ output_format = "json"
  /\ input_string = TextList /\ json_path = <<>>
  /\ out.result = TextList

\* C19: _format_output gives "" for null in every mode, and a non-empty
\* string for every other value except the empty string in Raw mode.
C19_EmptyOnlyForNull ==
  FormatCalled =>
    /\ FormattedValue = JNull => out.result = ""
    /\ FormattedValue # JNull =>
         (out.result = "" <=>
            (output_format = "string" /\ FormattedValue = JStr(<<>>)))

C19_Witness ==
  /\ FormatCalled /\ input_string = "null" /\ json_path = <<>>
  /\ output_format = "pretty_json" /\ out.result = ""

\* C20: with input_type 'string' the input text is returned as given, with
\* no JSON parsing, whatever the path, output format and default are.
C20_StringModePassThrough ==
  (pc = "done" /\ input_type = "string") =>
    /\ out = [result |-> input_string, path_info |-> [kind |-> "PlainString"]]
    /\ data = Unset /\ ret.info = NoInfo
    /\ path_parts = <<>> /\ visited = 0 /\ current_data = Unset

C20_Witness ==
  /\ pc = "done" /\ input_type = "string" /\ input_string = TextTruncated
  /\ json_path = <<"a">> /\ output_format = "json"
  /\ default_value = "DEFAULT" /\ out.result = TextTruncated

----------------------------------------------------------------------------
(* Properties of LoadImageFromUrlNode *)

LoadFinished == load_pc \in {"returned", "raised"}
\* at least one non-blank line, and nothing loaded
AllUrlsFailed ==
  /\ UrlList(urls) # <<>>
  /\ \A i \in 1..Len(url_list) : url_list[i].t # "Image"
SameSize(pils) ==
  \A i \in 1..Len(pils) :
    /\ pils[i].height = pils[1].height
    /\ pils[i].width = pils[1].width

\* C21: when at least one non-empty URL is given and every URL fails to
\* load, load_images returns one blank image with a mask of the same height
\* and width and has_images = False, and does not raise.
C21_BlankImageWhenAllFail ==
  (LoadFinished /\ AllUrlsFailed) =>
    /\ load_out.returned
    /\ Len(load_out.images) = 1 /\ Len(load_out.masks) = 1
    /\ load_out.masks[1] = SubSeq(load_out.images[1], 2, 3)
    /\ load_out.has_images = FALSE

C21_Reached ==
  /\ load_pc = "raised" /\ AllUrlsFailed
  /\ urls = <<NoImage>> /\ upload = "none"
  /\ load_out = LoadRaise("AttributeError")

\* C26: in batch mode, for either value of keep_alpha_channel, when two or
\* more images load: equal heights and widths give one batched image tensor
\* and one batched mask tensor without raising, a differing height or width
\* gives the per-image lists; and whatever the mode, the returned image and
\* mask lists have equal length and has_images is True exactly when at
\* least one image loaded.
C26_BatchOrLists ==
  LoadFinished =>
    /\ (~output_mode /\ Len(pil_images) >= 2) =>
         /\ load_out.returned
         /\ IF SameSize(pil_images)
              THEN /\ Len(load_out.images) = 1 /\ Len(load_out.masks) = 1
                   /\ load_out.images[1][1] = Len(pil_images)
                   /\ load_out.masks[1][1] = Len(pil_images)
              ELSE /\ load_out.images = image_tensors
                   /\ load_out.masks = mask_tensors
                   /\ Len(load_out.images) = Len(pil_images)
    /\ load_out.returned =>
         /\ Len(load_out.images) = Len(load_out.masks)
         /\ load_out.has_images = (Len(pil_images) > 0)

C26_Reached ==
  /\ load_pc = "raised" /\ ~output_mode /\ keep_alpha_channel
  /\ pil_images = <<PilImage("RGBA", 1, 1), PilImage("RGB", 1, 1)>>
  /\ load_out = LoadRaise("RuntimeError")

----------------------------------------------------------------------------
(* Properties of OldPhotoColorizationNode *)

SingleExited == col_pc \in {"single_returned", "single_raised"}

\* C22: once _colorize_single_image has returned or raised, on every path
\* (colorizer success, result without 'output_img', colorizer exception,
\* failure while writing the temporary JPEG), the temporary input file it
\* created no longer exists.
C22_TempFileRemoved ==
  SingleExited => input_path \notin temp_files

C22_Reached ==
  /\ col_pc = "single_raised" /\ batch_image = [n |-> 1, channels |-> 4]
  /\ input_path = 1 /\ temp_files = {1}

InitFailureReturned ==
  /\ col_pc = "returned" /\ col_out.info = InitFailed

\* C25: over any sequence of colorize_images calls on one node, the
\* pipeline is built successfully at most once and reused afterwards (once
\* self.colorizer holds a pipeline it never changes), the colorizer is
\* never invoked while self.colorizer is None, and a call whose
\* initialization fails returns the input image with the
\* initialization-failure message, leaves self.colorizer None, and the
\* next call calls pipeline(...) again.
C25_LazyInitOnce ==
  /\ [][colorizer # None => colorizer' = colorizer]_vars
  /\ [](col_pc = "run" => colorizer # None)
  /\ [](InitFailureReturned =>
          /\ col_out.image = batch_image
          /\ colorizer = None)
  /\ [][(col_pc = "call" /\ colorizer = None /\ col_pc' # "call") =>
          pipeline_calls' = pipeline_calls + 1]_vars
  /\ [][(col_pc = "call" /\ colorizer # None) =>
          UNCHANGED pipeline_calls]_vars

C25_Witness ==
  /\ col_pc = "returned" /\ col_calls = 3
  /\ pipeline_calls = 2 /\ colorizer = Pipeline(2)
  /\ col_out.info = CombinedInfo(<<Colorized>>)

----------------------------------------------------------------------------
(* Properties of SaveImageUnifiedOutput *)

SaveLooping == save_pc = "loop" /\ batch_number < images.n
Distinct(paths) ==
  \A i, j \in 1..Len(paths) : i # j => paths[i] # paths[j]

\* C23: save_images returns the input images as its first output on
\* success, on per-image failure and on overall failure; every iteration of
\* the loop, whether its image was saved or not, goes on to the next image
\* and the call returns only after the last one; the returned file_paths
\* has as many paths as the reported number of saved images, which is at
\* most the batch size.
C23_ReturnsInputAndCounts ==
  /\ [](save_pc = "returned" =>
          /\ save_out.returned /\ save_out.images = images
          /\ IF save_out.info.kind = "Saved"
               THEN /\ batch_number = images.n
                    /\ save_out.info.total = images.n
                    /\ Len(save_out.file_paths) = save_out.info.saved_count
                    /\ save_out.info.saved_count <= images.n
               ELSE save_out.file_paths = <<>>)
  /\ [](save_pc = "loop" =>
          /\ Len(file_paths) = saved_count
          /\ saved_count <= batch_number /\ batch_number <= images.n)
  /\ [][SaveLooping =>
          /\ batch_number' = batch_number + 1
          /\ save_pc' = "loop"]_vars

\* the first image of a batch of two fails, the second is saved
C23_Witness ==
  /\ save_pc = "returned" /\ save_calls = 1 /\ images = Tensor(2)
  /\ custom_subfolder = <<" ", "s">> /\ filename_prefix = <<"a">>
  /\ ~include_timestamp /\ image_format = "PNG"
  /\ save_out.info = SavedInfo(1, 2, <<"s">>)
  /\ save_out.file_paths =
       <<File(<<"s">>, <<"a", "_", "0", "0", "0", "0", "2", ".", "p", "n", "g">>)>>
  /\ files = {save_out.file_paths[1]}

\* the path the next iteration writes to
NextFilePath ==
  File(full_output_folder,
       GenerateFilename(filename, batch_number, counter + batch_number,
                        include_timestamp, image_format, clock))

\* C24: with a non-empty custom_subfolder and include_timestamp False, over
\* any sequence of save_images calls (any filename_prefix, files possibly
\* deleted between calls), no call writes to a path that already exists in
\* the subfolder, and the paths written within one call are pairwise
\* distinct.
C24_NeverOverwrites ==
  (~IsBlank(custom_subfolder) /\ ~include_timestamp) =>
    /\ SaveLooping => NextFilePath \notin files
    /\ Distinct(file_paths)

\* two calls with prefix 'a%batch_num%': both write a0_00001.png
C24_Reached ==
  /\ save_pc = "returned" /\ save_calls = 2
  /\ ~IsBlank(custom_subfolder) /\ ~include_timestamp
  /\ filename_prefix = <<"a">> \o BatchNumToken
  /\ Cardinality(files) = 1 /\ save_out.file_paths = <<CHOOSE f \in files : TRUE>>
====
